---- MODULE Spec2Model ----
(***************************************************************************)
(* Model of context_agent_app: the cache subsystem (cache.py), the key     *)
(* deriver (generate_cache_key), the pipeline entry point and the session  *)
(* operations (agent.py) and the four stages (subagents).                  *)
(***************************************************************************)
EXTENDS Integers, Sequences, FiniteSets, TLC

\* ------------------------------------------------------------------------
\* Bounds of the model
\* ------------------------------------------------------------------------
MaxOps == 3
MaxEvictOps == 3
MaxMgrOps == 3
MaxArgs == 1
MaxKwargs == 2
MaxStatements == 2
MaxRuns == 1
MaxTime == 2
MaxTtl == 2
MaxSize == 2
MaxStageRuns == 3
MaxHistory == 3
MaxResets == 2
MaxCallers == 2
MaxText == 6
MaxNames == 2

Names == {"n1", "n2"}
Keys == {"k1", "k2", "k3"}
StoreKeys == {"k1", "k2"}
MgrKeys == {"k1"}
TtlArgs == 0..MaxTtl
StoreTtls == 1..MaxTtl
Sizes == 0..MaxSize
\* the ends of the three ranges: no per-call ttl, the shortest and the longest
\* ttl, and a store of no, one and the most entries
EdgeTtlArgs == {0, 1, MaxTtl}
EdgeTtls == {1, MaxTtl}
EdgeSizes == {0, 1, MaxSize}
Faults == {"none", "transport"}

\* ------------------------------------------------------------------------
\* JSON-like values.  A value is a record [t, v]: t is the Python type and
\* v the payload as a sequence of characters (str, int), of one-character
\* items (list of str) or of alternating one-character keys and values
\* (mapping of str to str, in insertion order).  Python's None is JNone.
\* ------------------------------------------------------------------------
JNone == [t |-> "none", v |-> <<>>]
JStr(chars) == [t |-> "str", v |-> chars]
JList(items) == [t |-> "list", v |-> items]
JInt(digits) == [t |-> "int", v |-> digits]
JBool(word) == [t |-> "bool", v |-> <<word>>]
JDict(flat) == [t |-> "dict", v |-> flat]

Values == {JStr(<<"a">>), JList(<<"a", "b">>)}

Quote == "\""

Digits == {"0", "1", "2"}

\* order of the characters that occur in mapping keys and argument names
Alphabet == <<"a", "b", "m", "n", "x", "y">>

CharOrd(c) == CHOOSE i \in 1..Len(Alphabet) : Alphabet[i] = c

\* a mapping's payload lists key, value, key, value, ... in insertion order
PairsOf(flat) == [i \in 1..(Len(flat) \div 2) |-> <<flat[2 * i - 1], flat[2 * i]>>]

\* sorted(): insertion of one pair into a sequence sorted by its first item
RECURSIVE InsertByKey(_, _)
InsertByKey(pair, sorted) ==
    IF sorted = <<>> THEN <<pair>>
    ELSE IF CharOrd(pair[1]) < CharOrd(sorted[1][1]) THEN <<pair>> \o sorted
    ELSE <<Head(sorted)>> \o InsertByKey(pair, Tail(sorted))

RECURSIVE SortByKey(_)
SortByKey(pairs) ==
    IF pairs = <<>> THEN <<>>
    ELSE InsertByKey(Head(pairs), SortByKey(Tail(pairs)))

RECURSIVE DumpItems(_)
DumpItems(items) ==
    IF items = <<>> THEN <<>>
    ELSE IF Len(items) = 1 THEN <<Quote, items[1], Quote>>
    ELSE <<Quote, items[1], Quote, ",", " ">> \o DumpItems(Tail(items))

RECURSIVE DumpPairs(_)
DumpPairs(pairs) ==
    IF pairs = <<>> THEN <<>>
    ELSE <<Quote, pairs[1][1], Quote, ":", " ", Quote, pairs[1][2], Quote>>
         \o (IF Len(pairs) = 1 THEN <<>> ELSE <<",", " ">>)
         \o DumpPairs(Tail(pairs))

\* json.dumps(value, sort_keys=...): the JSON text, one token per character
json_dumps_text(x, sort_keys) ==
    IF x.t = "none" THEN <<"null">>
    ELSE IF x.t = "str" THEN <<Quote>> \o x.v \o <<Quote>>
    ELSE IF x.t = "int" THEN x.v
    ELSE IF x.t = "bool" THEN (IF x.v = <<"True">> THEN <<"true">>
                               ELSE <<"false">>)
    ELSE IF x.t = "dict"
         THEN <<"{">> \o DumpPairs(IF sort_keys THEN SortByKey(PairsOf(x.v))
                                   ELSE PairsOf(x.v)) \o <<"}">>
    ELSE <<"[">> \o DumpItems(x.v) \o <<"]">>

json_dumps(x) == json_dumps_text(x, FALSE)

NoQuote(s) == \A i \in 1..Len(s) : s[i] # Quote

IsStrText(s) ==
    /\ Len(s) >= 2
    /\ s[1] = Quote
    /\ s[Len(s)] = Quote
    /\ NoQuote(SubSeq(s, 2, Len(s) - 1))

IsIntText(s) == Len(s) >= 1 /\ \A i \in 1..Len(s) : s[i] \in Digits

RECURSIVE IsItemsText(_)
IsItemsText(s) ==
    \/ s = <<>>
    \/ /\ Len(s) >= 3
       /\ s[1] = Quote
       /\ s[2] # Quote
       /\ s[3] = Quote
       /\ \/ Len(s) = 3
          \/ /\ Len(s) >= 8
             /\ s[4] = ","
             /\ s[5] = " "
             /\ IsItemsText(SubSeq(s, 6, Len(s)))

RECURSIVE ParseItems(_)
ParseItems(s) ==
    IF Len(s) < 3 THEN <<>>
    ELSE <<s[2]>> \o (IF Len(s) >= 6 THEN ParseItems(SubSeq(s, 6, Len(s)))
                      ELSE <<>>)

IsListText(s) ==
    /\ Len(s) >= 2
    /\ s[1] = "["
    /\ s[Len(s)] = "]"
    /\ IsItemsText(SubSeq(s, 2, Len(s) - 1))

\* json.loads(text) raises JSONDecodeError unless Decodable(text)
Decodable(s) ==
    s = <<"null">> \/ IsStrText(s) \/ IsIntText(s) \/ IsListText(s)

\* variant: the last item of a list is lost in decoding
json_loads_drop(s) ==
    IF s = <<"null">> THEN JNone
    ELSE IF IsStrText(s) THEN JStr(SubSeq(s, 2, Len(s) - 1))
    ELSE IF IsIntText(s) THEN [t |-> "int", v |-> s]
    ELSE LET items == ParseItems(SubSeq(s, 2, Len(s) - 1))
         IN  JList(SubSeq(items, 1, Len(items) - 1))

json_loads(s) ==
    IF s = <<"null">> THEN JNone
    ELSE IF IsStrText(s) THEN JStr(SubSeq(s, 2, Len(s) - 1))
    ELSE IF IsIntText(s) THEN [t |-> "int", v |-> s]
    ELSE JList(ParseItems(SubSeq(s, 2, Len(s) - 1)))

\* a reply text that is not JSON (written by another client of the database)
GarbageText == <<"h", "i">>

\* ------------------------------------------------------------------------
\* State
\* ------------------------------------------------------------------------
VARIABLES
    backend,                \* CacheManager.backend: "memory" or "redis"
    CACHETOOLS_AVAILABLE,   \* cache.py module flag
    caches,                 \* CacheManager.caches: name -> store
    regOrder,               \* insertion order of CacheManager.caches
    redisDb,                \* the database behind every RedisCache client
    now,                    \* time.time()
    budget,                 \* operations still allowed by the bound
    nextId,                 \* identity of the next store object created
    last,                   \* the last operation and what it returned
    callA, callB,           \* two calls of generate_cache_key
    keyA, keyB,             \* the keys they returned
    sstate,                 \* state of the session (SESSION_ID)
    pc,                     \* stage the pipeline run is at, or "idle"
    runs,                   \* pipeline runs started
    stageRuns,              \* stage invocations so far
    run,                    \* the last call of process_query_from_web_gui
    template,               \* the module-level dict initial_state
    storeByRef,             \* the session service hands out stored objects
    pos,                    \* where the generator of the stage stands
    pending,                \* the event yielded and not yet consumed
    emitted,                \* the events of the run, in order of emission
    trace,                  \* the writes and events of the run, in order
    inv,                    \* the stage invocation under way, or the last
    CACHE_ENABLED,          \* config.CACHE_ENABLED
    temp_session_service,   \* KnowledgeDBAgent.temp_session_service
    sessions,               \* the sessions held by each session service
    graphDb,                \* the graph database
    fetchLog,               \* the last runs of FetchAgent's try block
    kgLog,                  \* the last graph builds of KnowledgeDBAgent
    cache_manager,          \* the module-level _cache_manager (0: None)
    managers,               \* the registry self.caches of each manager made
    stores,                 \* the stores constructed, by the name asked for
    callers,                \* where each caller of get_cache stands
    response,               \* the text handed to extract_json_from_response
    extracted,              \* what extract_json_from_response did with it
    request,                \* the call of fetch_multiple_entities under way
    web,                    \* what Wikipedia and the news feed answer
    results,                \* the local results of that call
    wrapped                 \* the last call of the function the cached
                            \* decorator wraps

cacheVars == <<backend, CACHETOOLS_AVAILABLE, caches, regOrder, redisDb,
               now, budget, nextId, last>>

keyVars == <<callA, callB, keyA, keyB>>

pipeVars == <<sstate, pc, runs, stageRuns, run, template, storeByRef, pos,
              pending, emitted, trace, inv>>

stageVars == <<CACHE_ENABLED, temp_session_service, sessions, graphDb,
               fetchLog, kgLog>>

raceVars == <<cache_manager, managers, stores, callers>>

toolVars == <<response, extracted, request, web, results>>

wrapVars == <<wrapped>>

auxVars == <<raceVars, toolVars, wrapVars>>

vars == <<cacheVars, keyVars, pipeVars, stageVars, auxVars>>

NoDbEntry == [present |-> FALSE, text |-> <<>>, e |-> 0]

NoStats == [hits |-> 0, misses |-> 0, sets |-> 0, errors |-> 0,
            hit_rate |-> [num |-> 0, den |-> 1], total_requests |-> 0]

NoOp == [op |-> "none", name |-> "", key |-> "", val |-> JNone, ttl |-> 0,
         size |-> 0, ret |-> JNone, ok |-> FALSE, fault |-> "none",
         retId |-> 0, at |-> 0, life |-> "", held |-> FALSE, gone |-> FALSE,
         stats |-> NoStats,
         raised |-> FALSE, exp |-> 0, follows |-> FALSE, inTime |-> FALSE,
         expired |-> FALSE, delta |-> <<0, 0, 0, 0>>, invoked |-> {},
         clean |-> {}]

Registered == DOMAIN caches

\* ------------------------------------------------------------------------
\* CacheStats
\* ------------------------------------------------------------------------
record_hit(s) == [s EXCEPT !.hits = @ + 1]
record_miss(s) == [s EXCEPT !.misses = @ + 1]
record_set(s) == [s EXCEPT !.sets = @ + 1]
record_error(s) == [s EXCEPT !.errors = @ + 1]

\* ------------------------------------------------------------------------
\* Helpers on the ordered entry list of an in-process store
\* ------------------------------------------------------------------------
EntryKeys(entries) == {entries[i].k : i \in 1..Len(entries)}

IndexOf(entries, key) ==
    IF key \in EntryKeys(entries)
    THEN CHOOSE i \in 1..Len(entries) : entries[i].k = key
    ELSE 0

RemoveKey(entries, key) == SelectSeq(entries, LAMBDA en : en.k # key)

RemoveName(seq, key) == SelectSeq(seq, LAMBDA x : x # key)

KeySeq(entries) == [i \in 1..Len(entries) |-> entries[i].k]

\* ------------------------------------------------------------------------
\* cachetools.TTLCache(maxsize, ttl) as InMemoryCache uses it when
\* CACHETOOLS_AVAILABLE: entries are kept in least-recently-used order,
\* an entry is visible while time < expires, expired entries are dropped
\* by expire(), which every mutation runs first.
\* ------------------------------------------------------------------------
TTLVisible(s, key, t) ==
    LET i == IndexOf(s.entries, key)
    IN  i > 0 /\ t < s.entries[i].e

TTLExpire(s, t) ==
    LET kept == SelectSeq(s.entries, LAMBDA en : t < en.e)
    IN  [s EXCEPT !.entries = kept,
                  !.fifo = SelectSeq(s.fifo, LAMBDA x : x \in EntryKeys(kept))]

\* Cache.__setitem__: while currsize + 1 > maxsize: popitem() (LRU head)
RECURSIVE TTLPopWhile(_)
TTLPopWhile(s) ==
    IF Len(s.entries) + 1 > s.max_size /\ s.entries # <<>>
    THEN TTLPopWhile([s EXCEPT !.entries = Tail(@),
                               !.fifo = RemoveName(@, s.entries[1].k)])
    ELSE s

TTLCache_get(s, key, t) ==
    LET i == IndexOf(s.entries, key)
    IN  IF TTLVisible(s, key, t)
        THEN [store |-> [s EXCEPT !.entries =
                             Append(RemoveKey(@, key), s.entries[i])],
              value |-> s.entries[i].v]
        ELSE [store |-> s, value |-> JNone]

\* raises ValueError("value too large") when maxsize < 1
TTLCache_setitem(s, key, value, t) ==
    LET s1 == TTLExpire(s, t)
        present == key \in EntryKeys(s1.entries)
        s2 == IF present THEN s1 ELSE TTLPopWhile(s1)
        en == [k |-> key, v |-> value, e |-> t + s.ttl]
    IN  IF 1 > s.max_size
        THEN [store |-> s1, raised |-> TRUE]
        ELSE [store |-> [s2 EXCEPT !.entries = Append(RemoveKey(@, key), en),
                                   !.fifo = IF present THEN @
                                            ELSE Append(@, key)],
              raised |-> FALSE]

\* variant: the sets count as requests too
hit_rate_allops(s) ==
    LET total == s.hits + s.misses + s.sets
    IN  IF total > 0 THEN [num |-> s.hits, den |-> total]
        ELSE [num |-> 0, den |-> 1]

\* CacheStats.hit_rate: the quotient hits / total as a fraction, 0.0 as 0/1
hit_rate(s) ==
    LET total == s.hits + s.misses
    IN  IF total > 0 THEN [num |-> s.hits, den |-> total]
        ELSE [num |-> 0, den |-> 1]

\* CacheStats.to_dict
to_dict(s) ==
    [hits |-> s.hits, misses |-> s.misses, sets |-> s.sets,
     errors |-> s.errors, hit_rate |-> hit_rate(s),
     total_requests |-> s.hits + s.misses]

\* ------------------------------------------------------------------------
\* InMemoryCache
\* ------------------------------------------------------------------------
\* variant: the lookup never compares the time to the expiry
DictLookup_noexpiry(s, key, t) ==
    LET i == IndexOf(s.entries, key)
    IN  [store |-> s, value |-> IF i > 0 THEN s.entries[i].v ELSE JNone]

\* the basic-dict fallback of get: lazy expiry on lookup
DictLookup(s, key, t) ==
    LET i == IndexOf(s.entries, key)
    IN  IF i > 0 /\ t > s.entries[i].e
        THEN [store |-> [s EXCEPT !.entries = RemoveKey(@, key),
                                  !.fifo = RemoveName(@, key)],
              value |-> JNone]
        ELSE [store |-> s,
              value |-> IF i > 0 THEN s.entries[i].v ELSE JNone]

InMemoryCache_get(s, key, t) ==
    LET r == IF CACHETOOLS_AVAILABLE THEN TTLCache_get(s, key, t)
             ELSE DictLookup(s, key, t)
    IN  [store |-> IF r.value # JNone THEN record_hit(r.store)
                   ELSE record_miss(r.store),
         ret |-> r.value, ok |-> TRUE, raised |-> FALSE]

\* variant: on overflow the newest key is dropped instead of the oldest
DictStore_evictnewest(s, key, value, ttl, t) ==
    LET i == IndexOf(s.entries, key)
        en == [k |-> key, v |-> value,
               e |-> t + (IF ttl # 0 THEN ttl ELSE s.ttl)]
        entries1 == IF i > 0 THEN [s.entries EXCEPT ![i] = en]
                    ELSE Append(s.entries, en)
        entries2 == IF Len(entries1) > s.max_size
                    THEN SubSeq(entries1, 1, Len(entries1) - 1)
                    ELSE entries1
    IN  [s EXCEPT !.entries = entries2, !.fifo = KeySeq(entries2)]

\* the basic-dict fallback of set: store, stamp the expiry, and drop the
\* first key of the dict when the size limit is exceeded
DictStore(s, key, value, ttl, t) ==
    LET i == IndexOf(s.entries, key)
        en == [k |-> key, v |-> value,
               e |-> t + (IF ttl # 0 THEN ttl ELSE s.ttl)]
        entries1 == IF i > 0 THEN [s.entries EXCEPT ![i] = en]
                    ELSE Append(s.entries, en)
        entries2 == IF Len(entries1) > s.max_size THEN Tail(entries1)
                    ELSE entries1
    IN  [s EXCEPT !.entries = entries2, !.fifo = KeySeq(entries2)]

InMemoryCache_set(s, key, value, ttl, t) ==
    IF CACHETOOLS_AVAILABLE
    THEN LET r == TTLCache_setitem(s, key, value, t)
         IN  IF r.raised
             THEN [store |-> record_error(r.store), ret |-> JNone, ok |-> FALSE, raised |-> FALSE]
             ELSE [store |-> record_set(r.store), ret |-> JNone, ok |-> TRUE, raised |-> FALSE]
    ELSE [store |-> record_set(DictStore(s, key, value, ttl, t)),
          ret |-> JNone, ok |-> TRUE, raised |-> FALSE]

\* variant: a delete of a key that is not stored is counted as a miss
InMemoryCache_delete_miss(s, key, t) ==
    LET found == IF CACHETOOLS_AVAILABLE THEN TTLVisible(s, key, t)
                 ELSE key \in EntryKeys(s.entries)
    IN  IF found
        THEN [store |-> [s EXCEPT !.entries = RemoveKey(@, key),
                                  !.fifo = RemoveName(@, key)],
              ret |-> JNone, ok |-> TRUE, raised |-> FALSE]
        ELSE [store |-> record_miss(s), ret |-> JNone, ok |-> FALSE,
              raised |-> FALSE]

\* variant: the delete reports the key but leaves the entry in place
InMemoryCache_delete_keep(s, key, t) ==
    LET found == IF CACHETOOLS_AVAILABLE THEN TTLVisible(s, key, t)
                 ELSE key \in EntryKeys(s.entries)
    IN  [store |-> s, ret |-> JNone, ok |-> found, raised |-> FALSE]

\* `key in self._cache` is TTLCache.__contains__ (unexpired) or dict membership
InMemoryCache_delete(s, key, t) ==
    LET found == IF CACHETOOLS_AVAILABLE THEN TTLVisible(s, key, t)
                 ELSE key \in EntryKeys(s.entries)
    IN  IF found
        THEN [store |-> [s EXCEPT !.entries = RemoveKey(@, key),
                                  !.fifo = RemoveName(@, key)],
              ret |-> JNone, ok |-> TRUE, raised |-> FALSE]
        ELSE [store |-> s, ret |-> JNone, ok |-> FALSE, raised |-> FALSE]

\* variant: clearing the store starts its statistics afresh
InMemoryCache_clear_resetstats(s) ==
    [store |-> [s EXCEPT !.entries = <<>>, !.fifo = <<>>, !.hits = 0,
                         !.misses = 0, !.sets = 0, !.errors = 0],
     ret |-> JNone, ok |-> TRUE, raised |-> FALSE]

InMemoryCache_clear(s) ==
    [store |-> [s EXCEPT !.entries = <<>>, !.fifo = <<>>],
     ret |-> JNone, ok |-> TRUE, raised |-> FALSE]

\* ------------------------------------------------------------------------
\* RedisCache.  db is the server's keyspace; a key answers while
\* time < its expiry (the server's native per-key expiry).
\* ------------------------------------------------------------------------
RedisReply(db, key, t) ==
    IF db[key].present /\ t < db[key].e THEN db[key].text ELSE <<>>

RedisCache_get(s, db, key, t, fault) ==
    LET value_str == RedisReply(db, key, t)
    IN  IF fault # "none"
        THEN [store |-> record_error(s), db |-> db, ret |-> JNone, ok |-> FALSE, raised |-> FALSE]
        ELSE IF value_str # <<>>
        THEN IF Decodable(value_str)
             THEN [store |-> record_hit(s), db |-> db,
                   ret |-> json_loads(value_str), ok |-> TRUE,
                   raised |-> FALSE]
             ELSE [store |-> record_error(record_hit(s)), db |-> db,
                   ret |-> JNone, ok |-> FALSE, raised |-> FALSE]
        ELSE [store |-> record_miss(s), db |-> db, ret |-> JNone, ok |-> TRUE, raised |-> FALSE]

RedisCache_set(s, db, key, value, ttl, t, fault) ==
    LET value_str == json_dumps(value)
        seconds == IF ttl # 0 THEN ttl ELSE s.ttl
    IN  IF fault # "none"
        THEN [store |-> record_error(s), db |-> db, ret |-> JNone, ok |-> FALSE, raised |-> FALSE]
        ELSE [store |-> record_set(s),
              db |-> [db EXCEPT ![key] = [present |-> TRUE, text |-> value_str,
                                          e |-> t + seconds]],
              ret |-> JNone, ok |-> TRUE, raised |-> FALSE]

RedisCache_delete(s, db, key, t, fault) ==
    IF fault # "none"
    THEN [store |-> record_error(s), db |-> db, ret |-> JNone, ok |-> FALSE, raised |-> FALSE]
    ELSE [store |-> s, db |-> [db EXCEPT ![key] = NoDbEntry],
          ret |-> JNone, ok |-> RedisReply(db, key, t) # <<>>,
          raised |-> FALSE]

\* variant: flushdb is called outside the try block
RedisCache_clear_raises(s, db, fault) ==
    IF fault # "none"
    THEN [store |-> s, db |-> db, ret |-> JNone, ok |-> FALSE, raised |-> TRUE]
    ELSE [store |-> s, db |-> [k \in Keys |-> NoDbEntry],
          ret |-> JNone, ok |-> TRUE, raised |-> FALSE]

RedisCache_clear(s, db, fault) ==
    IF fault # "none"
    THEN [store |-> record_error(s), db |-> db, ret |-> JNone, ok |-> FALSE, raised |-> FALSE]
    ELSE [store |-> s, db |-> [k \in Keys |-> NoDbEntry],
          ret |-> JNone, ok |-> TRUE, raised |-> FALSE]

\* ------------------------------------------------------------------------
\* BaseCache dispatch on the manager's backend
\* ------------------------------------------------------------------------
Cache_get(s, db, key, t, fault) ==
    IF backend = "redis" THEN RedisCache_get(s, db, key, t, fault)
    ELSE InMemoryCache_get(s, key, t) @@ [db |-> db]

Cache_set(s, db, key, value, ttl, t, fault) ==
    IF backend = "redis" THEN RedisCache_set(s, db, key, value, ttl, t, fault)
    ELSE InMemoryCache_set(s, key, value, ttl, t) @@ [db |-> db]

Cache_delete(s, db, key, t, fault) ==
    IF backend = "redis" THEN RedisCache_delete(s, db, key, t, fault)
    ELSE InMemoryCache_delete(s, key, t) @@ [db |-> db]

Cache_clear(s, db, fault) ==
    IF backend = "redis" THEN RedisCache_clear(s, db, fault)
    ELSE InMemoryCache_clear(s) @@ [db |-> db]

NewStore(id, ttl, max_size) ==
    [id |-> id, ttl |-> ttl, max_size |-> max_size, entries |-> <<>>,
     fifo |-> <<>>, hits |-> 0, misses |-> 0, sets |-> 0, errors |-> 0,
     pure |-> TRUE, log |-> <<>>, gone |-> {}]

\* ------------------------------------------------------------------------
\* CacheManager
\* ------------------------------------------------------------------------
\* clear_all: success = success and cache.clear(), in registry order
RECURSIVE ClearAllFrom(_, _, _, _, _, _)
ClearAllFrom(order, cs, db, success, invoked, faultOf) ==
    IF order = <<>>
    THEN [caches |-> cs, db |-> db, success |-> success, invoked |-> invoked]
    ELSE LET name == Head(order)
             r == Cache_clear(cs[name], db, faultOf[name])
         IN  IF success
             THEN ClearAllFrom(Tail(order), [cs EXCEPT ![name] = r.store],
                               r.db, r.ok, invoked \cup {name}, faultOf)
             ELSE ClearAllFrom(Tail(order), cs, db, FALSE, invoked, faultOf)

CacheManager_clear_all(order, cs, db, faultOf) ==
    ClearAllFrom(order, cs, db, TRUE, {}, faultOf)

\* variant: every call builds a new store under the name
CacheManager_get_cache_recreate(cs, name, id, ttl, max_size) ==
    [n \in DOMAIN cs \cup {name} |->
        IF n = name
        THEN NewStore(id, ttl, IF backend = "redis" THEN 0 ELSE max_size)
        ELSE cs[n]]

\* get_cache: create on first use, otherwise the registered instance
CacheManager_get_cache(cs, name, id, ttl, max_size) ==
    IF name \notin DOMAIN cs
    THEN cs @@ (name :> NewStore(id, ttl,
                                 IF backend = "redis" THEN 0 ELSE max_size))
    ELSE cs

\* ------------------------------------------------------------------------
\* What the claims observe
\* ------------------------------------------------------------------------
Delta(s, s2) == <<s2.hits - s.hits, s2.misses - s.misses,
                  s2.sets - s.sets, s2.errors - s.errors>>

\* the key is stored, as `key in self._cache` answers
Stored(s, key, t) ==
    IF CACHETOOLS_AVAILABLE THEN TTLVisible(s, key, t)
    ELSE key \in EntryKeys(s.entries)

\* the stored entry's expires_at has passed
EntryExpired(s, key, t) ==
    LET i == IndexOf(s.entries, key)
    IN  i > 0 /\ t > s.entries[i].e

\* expires_at of the entry a set has just stored
StampOf(s, db, key, fallback) ==
    IF backend = "redis" THEN db[key].e
    ELSE IF IndexOf(s.entries, key) > 0
         THEN s.entries[IndexOf(s.entries, key)].e
         ELSE fallback

\* history of a store: log lists the sets made so far (key and the expiry
\* stamped) as long as the store has seen nothing but sets of distinct keys
LogSet(s0, s, key, stamp) ==
    IF s0.pure /\ \A i \in 1..Len(s0.log) : s0.log[i].k # key
    THEN [s EXCEPT !.log = Append(s0.log, [k |-> key, e |-> stamp])]
    ELSE [s EXCEPT !.pure = FALSE, !.log = <<>>]

LogOther(s) == [s EXCEPT !.pure = FALSE, !.log = <<>>]

\* history of a store: gone holds the keys that a successful delete or
\* clear has removed and that no set has been called for since
LogRemoved(s, keys, ok) == IF ok THEN [s EXCEPT !.gone = @ \cup keys] ELSE s

\* the store or the server holds an entry for the key
Held(s, db, key, t) ==
    IF backend = "redis" THEN RedisReply(db, key, t) # <<>>
    ELSE Stored(s, key, t)

\* what the reply of a get was: a transport fault, a text that does not
\* decode ("protocol"), or a normal reply
FaultSeen(db, key, t, fault) ==
    IF fault # "none" THEN fault
    ELSE IF /\ backend = "redis"
            /\ RedisReply(db, key, t) # <<>>
            /\ ~Decodable(RedisReply(db, key, t))
         THEN "protocol"
         ELSE "none"

FaultOk(fault) == fault = "none" \/ backend = "redis"

\* ------------------------------------------------------------------------
\* Init and the operations of the cache subsystem
\* ------------------------------------------------------------------------
CacheInit ==
    /\ backend \in {"memory", "redis"}
    /\ CACHETOOLS_AVAILABLE \in BOOLEAN
    /\ backend = "redis" => CACHETOOLS_AVAILABLE
    /\ caches = <<>>
    /\ regOrder = <<>>
    /\ redisDb = [k \in Keys |-> NoDbEntry]
    /\ now = 0
    /\ nextId = 1
    /\ last = NoOp

GetCache(name, ttl, max_size) ==
    /\ budget > 0
    /\ caches' = CacheManager_get_cache(caches, name, nextId, ttl, max_size)
    /\ regOrder' = IF name \in Registered THEN regOrder
                   ELSE Append(regOrder, name)
    /\ nextId' = IF caches' = caches THEN nextId ELSE nextId + 1
    /\ last' = [NoOp EXCEPT !.op = "get_cache", !.name = name, !.ttl = ttl,
                            !.size = max_size, !.retId = caches'[name].id,
                            !.ok = TRUE]
    /\ budget' = budget - 1
    /\ UNCHANGED <<backend, CACHETOOLS_AVAILABLE, redisDb, now>>

\* where the time t of a get lies against the time due at which the ttl of
\* the entry has elapsed
Life(t, due) == IF t < due THEN "before" ELSE IF t > due THEN "after" ELSE "edge"

CacheGet(name, key, fault) ==
    /\ budget > 0
    /\ name \in Registered
    /\ FaultOk(fault)
    /\ LET s == caches[name]
           r == Cache_get(s, redisDb, key, now, fault)
           follows == /\ last.op = "set"
                      /\ last.ok
                      /\ last.name = name
                      /\ last.key = key
       IN  /\ caches' = [caches EXCEPT ![name] = LogOther(r.store)]
           /\ redisDb' = r.db
           /\ last' = [NoOp EXCEPT !.op = "get", !.name = name, !.key = key,
                          !.fault = FaultSeen(redisDb, key, now, fault),
                          !.ret = r.ret, !.ok = r.ok,
                          !.raised = r.raised, !.follows = follows,
                          !.val = IF follows THEN last.val ELSE JNone,
                          !.gone = key \in s.gone,
                          !.life = IF follows
                                   THEN Life(now, last.at
                                                  + (IF last.ttl # 0
                                                     THEN last.ttl
                                                     ELSE s.ttl))
                                   ELSE "",
                          !.inTime = follows /\ now < last.exp,
                          !.expired = backend = "memory"
                                      /\ EntryExpired(s, key, now),
                          !.delta = Delta(s, r.store)]
    /\ budget' = budget - 1
    /\ UNCHANGED <<backend, CACHETOOLS_AVAILABLE, regOrder, now, nextId>>

CacheSet(name, key, value, ttl, fault) ==
    /\ budget > 0
    /\ name \in Registered
    /\ FaultOk(fault)
    /\ LET s == caches[name]
           r == Cache_set(s, redisDb, key, value, ttl, now, fault)
           stamp == StampOf(r.store, r.db, key,
                            now + (IF ttl # 0 THEN ttl ELSE s.ttl))
       IN  /\ caches' = [caches EXCEPT ![name] =
                  [LogSet(s, r.store, key, stamp) EXCEPT !.gone = @ \ {key}]]
           /\ redisDb' = r.db
           /\ last' = [NoOp EXCEPT !.op = "set", !.name = name, !.key = key,
                          !.val = value, !.ttl = ttl, !.fault = fault,
                          !.ok = r.ok, !.raised = r.raised, !.exp = stamp,
                          !.at = now,
                          !.delta = Delta(s, r.store)]
    /\ budget' = budget - 1
    /\ UNCHANGED <<backend, CACHETOOLS_AVAILABLE, regOrder, now, nextId>>

CacheDelete(name, key, fault) ==
    /\ budget > 0
    /\ name \in Registered
    /\ FaultOk(fault)
    /\ LET s == caches[name]
           r == Cache_delete(s, redisDb, key, now, fault)
       IN  /\ caches' = [caches EXCEPT ![name] =
                  LogRemoved(LogOther(r.store), {key}, r.ok)]
           /\ redisDb' = r.db
           /\ last' = [NoOp EXCEPT !.op = "delete", !.name = name,
                          !.key = key, !.fault = fault, !.ok = r.ok,
                          !.held = Held(s, redisDb, key, now),
                          !.raised = r.raised, !.delta = Delta(s, r.store)]
    /\ budget' = budget - 1
    /\ UNCHANGED <<backend, CACHETOOLS_AVAILABLE, regOrder, now, nextId>>

CacheClear(name, fault) ==
    /\ budget > 0
    /\ name \in Registered
    /\ FaultOk(fault)
    /\ LET s == caches[name]
           r == Cache_clear(s, redisDb, fault)
       IN  /\ caches' = [caches EXCEPT ![name] =
                  LogRemoved(LogOther(r.store), Keys, r.ok)]
           /\ redisDb' = r.db
           /\ last' = [NoOp EXCEPT !.op = "clear", !.name = name,
                          !.fault = fault, !.ok = r.ok, !.raised = r.raised,
                          !.delta = Delta(s, r.store)]
    /\ budget' = budget - 1
    /\ UNCHANGED <<backend, CACHETOOLS_AVAILABLE, regOrder, now, nextId>>

ClearAll(faultOf) ==
    /\ budget > 0
    /\ \A n \in Registered : FaultOk(faultOf[n])
    /\ LET r == CacheManager_clear_all(regOrder, caches, redisDb, faultOf)
       IN  /\ caches' = [n \in Registered |->
                  LogRemoved(LogOther(r.caches[n]), Keys,
                             n \in r.invoked /\ faultOf[n] = "none")]
           /\ redisDb' = r.db
           /\ last' = [NoOp EXCEPT !.op = "clear_all", !.ok = r.success,
                          !.invoked = r.invoked,
                          !.clean = {n \in Registered : faultOf[n] = "none"},
                          !.fault = IF \E n \in Registered :
                                         faultOf[n] # "none"
                                    THEN "transport" ELSE "none"]
    /\ budget' = budget - 1
    /\ UNCHANGED <<backend, CACHETOOLS_AVAILABLE, regOrder, now, nextId>>

\* BaseCache.get_stats(): the statistics are read, nothing changes
GetStats(name) ==
    /\ name \in Registered
    /\ last.op # "get_stats"
    /\ last' = [NoOp EXCEPT !.op = "get_stats", !.name = name, !.ok = TRUE,
                            !.stats = to_dict(caches[name])]
    /\ UNCHANGED <<backend, CACHETOOLS_AVAILABLE, caches, regOrder, redisDb,
                   now, budget, nextId>>

\* time passes before the next operation
Tick ==
    /\ budget > 0
    /\ now < MaxTime
    /\ now' = now + 1
    /\ UNCHANGED <<backend, CACHETOOLS_AVAILABLE, caches, regOrder, redisDb,
                   budget, nextId, last>>

\* another client of the same Redis database stores a text that is not JSON
RedisForeignWrite(key) ==
    /\ budget > 0
    /\ backend = "redis"
    /\ redisDb' = [redisDb EXCEPT ![key] = [present |-> TRUE,
                                            text |-> GarbageText,
                                            e |-> now + MaxTtl]]
    /\ last' = [NoOp EXCEPT !.op = "foreign", !.key = key]
    /\ budget' = budget - 1
    /\ UNCHANGED <<backend, CACHETOOLS_AVAILABLE, caches, regOrder, now,
                   nextId>>

\* a single store "n1" of either backend, as its constructor leaves it
StoreInit ==
    /\ backend \in {"memory", "redis"}
    /\ CACHETOOLS_AVAILABLE \in BOOLEAN
    /\ backend = "redis" => CACHETOOLS_AVAILABLE
    /\ \E ttl \in EdgeTtls, max_size \in EdgeSizes :
           caches = CacheManager_get_cache(<<>>, "n1", 1, ttl, max_size)
    /\ regOrder = <<"n1">>
    /\ redisDb = [k \in Keys |-> NoDbEntry]
    /\ now = 0
    /\ budget = MaxOps
    /\ nextId = 2
    /\ last = NoOp

StoreNext ==
    \/ \E key \in StoreKeys, fault \in Faults : CacheGet("n1", key, fault)
    \/ \E key \in StoreKeys, value \in Values, ttl \in EdgeTtlArgs :
           CacheSet("n1", key, value, ttl, "none")
    \/ \E key \in StoreKeys, ttl \in EdgeTtlArgs :
           CacheSet("n1", key, JStr(<<"a">>), ttl, "transport")
    \/ \E key \in StoreKeys, fault \in Faults : CacheDelete("n1", key, fault)
    \/ \E fault \in Faults : CacheClear("n1", fault)
    \/ Tick
    \/ RedisForeignWrite("k1")

\* an in-process store "n1", filled and read
EvictInit ==
    /\ backend = "memory"
    /\ CACHETOOLS_AVAILABLE \in BOOLEAN
    /\ \E ttl \in StoreTtls, max_size \in Sizes :
           caches = CacheManager_get_cache(<<>>, "n1", 1, ttl, max_size)
    /\ regOrder = <<"n1">>
    /\ redisDb = [k \in Keys |-> NoDbEntry]
    /\ now = 0
    /\ budget = MaxEvictOps
    /\ nextId = 2
    /\ last = NoOp

EvictNext ==
    \/ \E key \in Keys, value \in Values : CacheSet("n1", key, value, 0, "none")
    \/ \E key \in Keys : CacheGet("n1", key, "none")
    \/ \E key \in Keys : CacheDelete("n1", key, "none")
    \/ GetStats("n1")
    \/ Tick

\* the manager and its registry of named stores
MgrInit ==
    /\ CacheInit
    /\ budget = MaxMgrOps

MgrNext ==
    \/ \E name \in Names, ttl \in StoreTtls, max_size \in Sizes :
           GetCache(name, ttl, max_size)
    \/ \E name \in Names, key \in MgrKeys, value \in Values,
          fault \in Faults :
           CacheSet(name, key, value, 0, fault)
    \/ \E name \in Names, key \in MgrKeys : CacheGet(name, key, "none")
    \/ \E name \in Names, key \in MgrKeys : CacheDelete(name, key, "none")
    \/ \E name \in Names, fault \in Faults : CacheClear(name, fault)
    \/ \E faultOf \in [Registered -> Faults] : ClearAll(faultOf)

\* ------------------------------------------------------------------------
\* generate_cache_key
\* ------------------------------------------------------------------------
IsPrimitive(x) == x.t \in {"str", "int", "float", "bool"}

\* str(arg) of a primitive
py_str(x) == x.v

\* hashlib.md5(text).hexdigest(): one digest per text
md5_hexdigest(text) == <<"#">> \o text \o <<"#">>

RenderArg(x) ==
    IF IsPrimitive(x) THEN py_str(x)
    ELSE md5_hexdigest(json_dumps_text(x, TRUE))

\* variant: the named arguments are taken in the order of the call
SortedKwargs_callorder(kwargs) == kwargs

\* sorted(kwargs.items())
SortedKwargs(kwargs) == SortByKey(kwargs)

RECURSIVE JoinParts(_, _)
JoinParts(parts, sep) ==
    IF parts = <<>> THEN <<>>
    ELSE IF Len(parts) = 1 THEN parts[1]
    ELSE parts[1] \o <<sep>> \o JoinParts(Tail(parts), sep)

generate_cache_key(prefix, args, kwargs) ==
    LET items == SortedKwargs(kwargs)
        key_parts ==
            <<prefix>>
            \o [i \in 1..Len(args) |-> RenderArg(args[i])]
            \o [i \in 1..Len(items) |->
                   <<items[i][1], "=">> \o RenderArg(items[i][2])]
    IN  JoinParts(key_parts, ":")

DictXY == JDict(<<"x", "a", "y", "b">>)
DictYX == JDict(<<"y", "b", "x", "a">>)
KeyArgValues == {JStr(<<"a">>), JInt(<<"1">>), DictXY, DictYX}
KwNames == {"m", "n"}
KwValues == {JStr(<<"a">>), DictXY, DictYX}

ArgLists == UNION {[1..n -> KeyArgValues] : n \in 0..MaxArgs}

KwLists ==
    {kw \in UNION {[1..n -> KwNames \X KwValues] : n \in 0..MaxKwargs} :
        \A i, j \in 1..Len(kw) : i # j => kw[i][1] # kw[j][1]}

Calls == [prefix : {<<"p">>}, args : ArgLists, kwargs : KwLists]

NoCall == [prefix |-> <<>>, args |-> <<>>, kwargs |-> <<>>]

KeyIdle == callA = NoCall /\ callB = NoCall /\ keyA = <<>> /\ keyB = <<>>

KeyInit ==
    /\ callA \in Calls
    /\ callB = NoCall
    /\ keyA = <<>>
    /\ keyB = <<>>

DeriveA ==
    /\ keyA = <<>>
    /\ keyA' = generate_cache_key(callA.prefix, callA.args, callA.kwargs)
    /\ UNCHANGED <<callA, callB, keyB>>

DeriveB(c) ==
    /\ keyB = <<>>
    /\ callB' = c
    /\ keyB' = generate_cache_key(c.prefix, c.args, c.kwargs)
    /\ UNCHANGED <<callA, keyA>>

KeyNext ==
    \/ DeriveA
    \/ \E c \in Calls : DeriveB(c)

\* ------------------------------------------------------------------------
\* The session and the pipeline entry point (agent.py)
\* ------------------------------------------------------------------------
PyStr(chars) == [t |-> "str", s |-> chars, l |-> <<>>]
PyList(items) == [t |-> "list", s |-> <<>>, l |-> items]

Whitespace == {" ", "\n"}

RECURSIVE lstrip(_)
lstrip(chars) ==
    IF chars # <<>> /\ Head(chars) \in Whitespace THEN lstrip(Tail(chars))
    ELSE chars

RECURSIVE rstrip(_)
rstrip(chars) ==
    IF chars # <<>> /\ chars[Len(chars)] \in Whitespace
    THEN rstrip(SubSeq(chars, 1, Len(chars) - 1))
    ELSE chars

\* str.strip()
strip(chars) == rstrip(lstrip(chars))

\* ------------------------------------------------------------------------
\* Values held in the session state.  Each is a record that names the Python
\* shape of the value (t) next to its payload, so that every shape a stage
\* may read is a value of the model.
\* ------------------------------------------------------------------------
\* an element of the entities list: a dict with a "name" key (whose value
\* is a str or is not), a dict without one, a str, or anything else
EntDict(name) == [t |-> "dict", nt |-> "str", name |-> name]
EntDictBadName(name) == [t |-> "dict", nt |-> "int", name |-> name]
EntDictNoName == [t |-> "dict", nt |-> "none", name |-> ""]
EntStr(name) == [t |-> "str", nt |-> "str", name |-> name]
EntOther == [t |-> "other", nt |-> "none", name |-> ""]

\* the value under the entities key: a list, the dict {"entities": [...]}
\* that output_key stores, a str, or no key at all
EntList(items) == [t |-> "list", items |-> items]
EntOutput(items) == [t |-> "dict", items |-> items]
EntText == [t |-> "str", items |-> <<>>]
EntMissing == [t |-> "missing", items |-> <<>>]

\* one fetched context: {"entity": name, "wikipedia": ..., "news": ...};
\* what was fetched is summed up in one token
ContextItem(name, content) == JDict(<<"entity", name, "wikipedia", content>>)

\* item.get(key): the value under a key of a mapping, "" when absent
DictGet(d, key) ==
    LET pairs == PairsOf(d.v)
        hits == {i \in 1..Len(pairs) : pairs[i][1] = key}
    IN  IF d.t # "dict" \/ hits = {} THEN ""
        ELSE pairs[CHOOSE i \in hits : \A j \in hits : i <= j][2]

\* the value under fetched_context: a list of items, a str, or no key
CtxList(items) == [t |-> "list", items |-> items]
CtxText == [t |-> "str", items |-> <<>>]
CtxMissing == [t |-> "missing", items |-> <<>>]

\* a relationship proposed for the graph; a proposal may lack a key
Rel(from, to) == [from_node |-> from, to_node |-> to, keys |-> TRUE]
RelNoKeys == [from_node |-> "", to_node |-> "", keys |-> FALSE]

\* the value under knowledge_graph: {} of the template, or a graph
NoGraph == [shape |-> "empty", nodes |-> <<>>, relationships |-> <<>>]
Graph(nodes, relationships) ==
    [shape |-> "graph", nodes |-> nodes, relationships |-> relationships]
EmptyGraph == Graph(<<>>, <<>>)

\* the value under judge_result; the template has no such key
NoJudgeResult == [present |-> FALSE, agreement_status |-> ""]
JudgeResult(status) == [present |-> TRUE, agreement_status |-> status]

\* class SessionKeys: the names of the keys of the session state
SessionKeys ==
    {"user_name", "user_query", "interaction_history", "entities",
     "fetched_context", "knowledge_graph", "judge_result", "final_summary"}

\* variant: the template carries a key that SessionKeys does not name
initial_state_extrakey ==
    [user_name |-> "Brandon Hancock",
     user_query |-> PyStr(<<>>),
     interaction_history |-> <<>>,
     entities |-> EntList(<<>>),
     fetched_context |-> CtxList(<<>>),
     knowledge_graph |-> NoGraph,
     judge_result |-> NoJudgeResult,
     final_summary |-> "",
     created_at |-> ""]

initial_state ==
    [user_name |-> "Brandon Hancock",
     user_query |-> PyStr(<<>>),
     interaction_history |-> <<>>,
     entities |-> EntList(<<>>),
     fetched_context |-> CtxList(<<>>),
     knowledge_graph |-> NoGraph,
     judge_result |-> NoJudgeResult,
     final_summary |-> ""]

HistoryEntry(action, agent, text, statements) ==
    [action |-> action, agent |-> agent, response |-> text,
     statements |-> statements]

\* set_user_query(statements)
set_user_query(st, statements) ==
    [st EXCEPT
        !.user_query = PyStr(strip(JoinParts(statements, "\n"))),
        !.interaction_history =
            Append(@, HistoryEntry("user_query", "", "", statements))]

\* variant: update_session stores a state rebuilt from the template
add_agent_response_stale(st, agent_name, response_text) ==
    [initial_state EXCEPT !.interaction_history =
        Append(st.interaction_history,
               HistoryEntry("agent_response", agent_name, response_text,
                            <<>>))]

\* variant: the response is recorded twice
add_agent_response_twice(st, agent_name, response_text) ==
    [st EXCEPT !.interaction_history =
        @ \o <<HistoryEntry("agent_response", agent_name, response_text, <<>>),
               HistoryEntry("agent_response", agent_name, response_text, <<>>)>>]

\* add_agent_response(agent_name, response_text)
add_agent_response(st, agent_name, response_text) ==
    [st EXCEPT !.interaction_history =
        Append(@, HistoryEntry("agent_response", agent_name, response_text,
                               <<>>))]

\* The module-level initial_state after a call has changed the session.
\* create_session(state=initial_state) and initial_state.copy() copy the
\* mapping but not the lists in it: when the session service hands out the
\* stored session itself (byRef), the session's interaction_history is the
\* list object of initial_state, and an append to one is an append to both.
\* A service that hands out deep copies leaves initial_state alone.
TemplateAfter(tmpl, st, byRef) ==
    IF byRef THEN [tmpl EXCEPT !.interaction_history = st.interaction_history]
    ELSE tmpl

\* reset_session(): session.state = initial_state.copy()
reset_session(tmpl) == tmpl


\* ------------------------------------------------------------------------
\* The pipeline run: root_agent, its runner and the loop that drains it
\* ------------------------------------------------------------------------
Stages == <<"EntityAgent", "FetchAgent", "KnowledgeDBAgent", "JudgeAgent">>

StageIndex(stage) == CHOOSE i \in 1..Len(Stages) : Stages[i] = stage

NoEvent == [author |-> "", text |-> ""]

Event(author, text) == [author |-> author, text |-> text]

NoRun == [phase |-> "none", blank |-> FALSE, pre |-> initial_state,
          preRuns |-> 0, statements |-> <<>>]

\* a stage invocation: the state it started from, the state its last
\* segment left, the events it has yielded, the segments of its generator
\* run so far, how it ended and the failure it met ("none" on the success
\* path)
NoInvocation == [stage |-> "", pre |-> initial_state, post |-> initial_state,
                 events |-> 0, steps |-> 0, status |-> "none",
                 failure |-> "none"]

Invocation(stage, st) == [NoInvocation EXCEPT !.stage = stage, !.pre = st,
                                              !.post = st,
                                              !.status = "running"]

Truthy(q) == IF q.t = "list" THEN q.l # <<>> ELSE q.s # <<>>

\* variant: any(s for s in statements), without strip()
SkipProcessing_nostrip(q) ==
    \/ ~Truthy(q)
    \/ q.t # "list"
    \/ ~\E i \in 1..Len(q.l) : q.l[i] # <<>>

\* the guard of process_query_from_web_gui
SkipProcessing(q) ==
    \/ ~Truthy(q)
    \/ q.t # "list"
    \/ ~\E i \in 1..Len(q.l) : strip(q.l[i]) # <<>>

\* [s.strip() for s in statements if s.strip()]
RECURSIVE FilterStatements(_)
FilterStatements(statements) ==
    IF statements = <<>> THEN <<>>
    ELSE (IF strip(Head(statements)) # <<>> THEN <<strip(Head(statements))>>
          ELSE <<>>)
         \o FilterStatements(Tail(statements))

Statements == {<<>>, <<" ">>, <<" ", "a", "\n">>}

QueryValues ==
    {PyStr(<<>>), PyStr(<<" ">>), PyStr(<<"a">>)}
    \cup {PyList(l) : l \in UNION {[1..n -> Statements] : n \in 0..MaxStatements}}

\* the query is empty or has no non-blank entry
AllBlank(chars) == \A i \in 1..Len(chars) : chars[i] \in Whitespace

EmptyOrBlank(q) ==
    IF q.t = "list" THEN \A i \in 1..Len(q.l) : AllBlank(q.l[i])
    ELSE AllBlank(q.s)

\* ADK Web stores the submitted query in the session state
GuiSubmitQuery(q) ==
    /\ pc = "idle"
    /\ sstate' = [sstate EXCEPT !.user_query = q]
    /\ run' = NoRun
    /\ UNCHANGED <<template, storeByRef, pc, pos, pending, runs, stageRuns,
                   emitted, trace, inv>>

process_query_from_web_gui ==
    /\ pc = "idle"
    /\ LET statements == sstate.user_query
       IN  IF SkipProcessing(statements)
           THEN /\ run' = [NoRun EXCEPT !.phase = "skipped",
                                        !.blank = EmptyOrBlank(statements),
                                        !.pre = sstate,
                                        !.preRuns = stageRuns]
                /\ UNCHANGED <<sstate, template, pc, pos, runs, stageRuns,
                               emitted, trace, inv>>
           ELSE /\ runs < MaxRuns
                /\ sstate' = set_user_query(sstate,
                                            FilterStatements(statements.l))
                /\ template' = TemplateAfter(template, sstate', storeByRef)
                /\ pc' = Stages[1]
                /\ pos' = "start"
                /\ runs' = runs + 1
                /\ run' = [phase |-> "started",
                           blank |-> EmptyOrBlank(statements),
                           pre |-> sstate, preRuns |-> stageRuns,
                           statements |-> FilterStatements(statements.l)]
                /\ emitted' = <<>>
                /\ trace' = <<>>
                /\ inv' = Invocation(Stages[1], sstate')
                /\ stageRuns' = stageRuns + 1
    /\ UNCHANGED <<storeByRef, pending>>

\* the consumer of run_async takes the event and the generator resumes; in
\* process_query_from_web_gui the body of the loop records every text part
\* of the event with add_agent_response
ConsumeEvent ==
    /\ pending # NoEvent
    /\ sstate' = IF run.phase = "started" /\ pending.text # ""
                 THEN add_agent_response(sstate, pending.author, pending.text)
                 ELSE sstate
    /\ template' = TemplateAfter(template, sstate', storeByRef)
    /\ pending' = NoEvent
    /\ UNCHANGED <<storeByRef, pc, pos, runs, stageRuns, run, emitted, trace,
                   inv>>

\* a segment of a stage's generator, up to a yield: the state it leaves,
\* whether it wrote its output key, the event, where the generator stands
StageYield(stage, st, wrote, text, nextpos, failure) ==
    /\ sstate' = st
    /\ pending' = Event(stage, text)
    /\ emitted' = Append(emitted, Event(stage, text))
    /\ trace' = trace
                \o (IF wrote THEN <<[stage |-> stage, kind |-> "write"]>>
                    ELSE <<>>)
                \o <<[stage |-> stage, kind |-> "event"]>>
    /\ pos' = nextpos
    /\ inv' = [inv EXCEPT !.events = @ + 1, !.steps = @ + 1, !.post = st,
                          !.failure = IF failure = "none" THEN @ ELSE failure]
    /\ UNCHANGED <<template, storeByRef, pc, runs, stageRuns, run>>

\* an exception leaves the stage: run_async and its caller raise it on
StageRaise(stage, failure) ==
    /\ pc' = "idle"
    /\ pos' = "start"
    /\ inv' = [inv EXCEPT !.status = "raised", !.steps = @ + 1,
                          !.failure = failure]
    /\ run' = [run EXCEPT !.phase = "raised"]
    /\ UNCHANGED <<sstate, template, storeByRef, pending, runs, stageRuns,
                   emitted, trace>>

\* variant: the next stage starts while an event is still to be consumed
SequentialAgent_ready_early(at, event) == at = "end"

\* SequentialAgent: a sub-agent's run_async is drained before the next starts
SequentialAgent_ready(at, event) == at = "end" /\ event = NoEvent

\* the generator of the stage is exhausted: the next stage starts, or the
\* run is over (a stage run on its own is over at once)
SequentialAgent_next ==
    /\ pc \in {Stages[i] : i \in 1..Len(Stages)}
    /\ SequentialAgent_ready(pos, pending)
    /\ pos' = "start"
    /\ IF run.phase = "started" /\ StageIndex(pc) < Len(Stages)
       THEN /\ pc' = Stages[StageIndex(pc) + 1]
            /\ inv' = Invocation(pc', sstate)
            /\ stageRuns' = stageRuns + 1
            /\ UNCHANGED run
       ELSE /\ pc' = "idle"
            /\ inv' = [inv EXCEPT !.status = "returned"]
            /\ run' = [run EXCEPT !.phase = IF @ = "started" THEN "completed"
                                            ELSE @]
            /\ UNCHANGED stageRuns
    /\ UNCHANGED <<sstate, template, storeByRef, pending, runs, emitted,
                   trace>>

\* ------------------------------------------------------------------------
\* EntityAgent: the completion's EntityOutput goes to output_key, and its
\* text is the stage's one event
\* ------------------------------------------------------------------------
EntityAgent_run(items) ==
    /\ pc = "EntityAgent"
    /\ pos = "start"
    /\ pending = NoEvent
    /\ StageYield("EntityAgent", [sstate EXCEPT !.entities = EntOutput(items)],
                  TRUE, "entities", "end", "none")
    /\ UNCHANGED <<cacheVars, stageVars>>

\* ------------------------------------------------------------------------
\* FetchAgent
\* ------------------------------------------------------------------------
\* lines 43-51: the list under the entities key, [] for any other shape
EntitiesOf(data) == IF data.t \in {"dict", "list"} THEN data.items ELSE <<>>

\* extract_entity_names: the "name" of every dict that has one, every str
extract_entity_names(items) ==
    LET named == SelectSeq(items, LAMBDA e :
                     \/ e.t = "dict" /\ e.nt # "none"
                     \/ e.t = "str")
    IN  [i \in 1..Len(named) |-> [nt |-> named[i].nt, v |-> named[i].name]]

\* ', '.join(entity_names) raises TypeError unless every name is a str
Joinable(names) == \A i \in 1..Len(names) : names[i].nt = "str"

FetchKey(name) == generate_cache_key(<<"web_fetch">>, <<JStr(<<name>>)>>, <<>>)

\* lines 98-108: one cache lookup per name; a truthy result is a hit
RECURSIVE FetchLookup(_, _, _)
FetchLookup(s, names, t) ==
    IF names = <<>> THEN [store |-> s, hits |-> <<>>, misses |-> 0]
    ELSE LET r == InMemoryCache_get(s, FetchKey(Head(names)), t)
             rest == FetchLookup(r.store, Tail(names), t)
         IN  [store |-> rest.store,
              hits |-> (IF r.ret # JNone THEN <<r.ret>> ELSE <<>>)
                       \o rest.hits,
              misses |-> (IF r.ret # JNone THEN 0 ELSE 1) + rest.misses]

\* line 112: the names no item of context_data is about
EntitiesToFetch(names, context_data) ==
    SelectSeq(names, LAMBDA n :
        ~\E i \in 1..Len(context_data) : DictGet(context_data[i], "entity") = n)

\* fetch_multiple_entities: one context per name, in the order of the names
fetch_multiple_entities(names, content) ==
    [i \in 1..Len(names) |-> ContextItem(names[i], content)]

\* lines 124-130: every fetched item is cached under its entity's key
RECURSIVE FetchStore(_, _, _)
FetchStore(s, items, t) ==
    IF items = <<>> THEN s
    ELSE FetchStore(
             InMemoryCache_set(s, FetchKey(DictGet(Head(items), "entity")),
                               Head(items), 0, t).store,
             Tail(items), t)

\* line 132: context_data.extend(fetched_data)
FetchContext(hits, fetched) == hits \o fetched

\* the log keeps the last two runs
LastTwo(log) == IF Len(log) > 2 THEN Tail(log) ELSE log

\* a finished run of the stage, as the claims about caching see it
FetchRecord(names, ctx, calls, ok, fault) ==
    [names |-> names, ctx |-> ctx, calls |-> calls, ok |-> ok,
     fault |-> fault, at |-> now, enabled |-> CACHE_ENABLED]

\* lines 43-90: up to the first yield
FetchAgent_start ==
    /\ pc = "FetchAgent"
    /\ pos = "start"
    /\ pending = NoEvent
    /\ LET entities == EntitiesOf(sstate.entities)
           entity_names == extract_entity_names(entities)
           none == [sstate EXCEPT !.fetched_context = CtxList(<<>>)]
       IN  IF entities = <<>>
           THEN /\ StageYield("FetchAgent", none, TRUE, "no entities", "end",
                              "no entities")
                /\ UNCHANGED fetchLog
           ELSE IF entity_names = <<>>
           THEN /\ StageYield("FetchAgent", none, TRUE, "no names", "end",
                              "no names")
                /\ UNCHANGED fetchLog
           ELSE IF ~Joinable(entity_names)
           THEN /\ StageRaise("FetchAgent", "name not a str")
                /\ UNCHANGED fetchLog
           ELSE /\ StageYield("FetchAgent", sstate, FALSE, "fetching", "try",
                              "none")
                /\ UNCHANGED fetchLog
    /\ UNCHANGED <<cacheVars, CACHE_ENABLED, temp_session_service, sessions,
                   graphDb, kgLog>>

\* lines 92-199: the try block.  fault is where an exception is raised: in
\* the cache lookups, in the fetch collaborator, or in the formatting that
\* follows the write of the context
FetchAgent_try(content, fault) ==
    /\ pc = "FetchAgent"
    /\ pos = "try"
    /\ pending = NoEvent
    /\ LET names == [i \in 1..Len(extract_entity_names(
                                      EntitiesOf(sstate.entities))) |->
                        extract_entity_names(EntitiesOf(sstate.entities))[i].v]
           s0 == caches["web_fetch"]
           looked == IF CACHE_ENABLED THEN FetchLookup(s0, names, now)
                     ELSE [store |-> s0, hits |-> <<>>,
                           misses |-> Len(names)]
           to_fetch == IF looked.misses > 0
                       THEN EntitiesToFetch(names, looked.hits)
                       ELSE <<>>
           fetched_data == fetch_multiple_entities(to_fetch, content)
           s2 == IF CACHE_ENABLED
                 THEN FetchStore(looked.store, fetched_data, now)
                 ELSE looked.store
           context_data == FetchContext(looked.hits, fetched_data)
           failed == [sstate EXCEPT !.fetched_context = CtxList(<<>>)]
       IN  /\ fault = "fetch" => looked.misses > 0
           /\ caches' = [caches EXCEPT !["web_fetch"] =
                  IF fault = "lookup" THEN s0
                  ELSE IF fault = "fetch" THEN LogOther(looked.store)
                  ELSE LogOther(s2)]
           /\ IF fault = "none"
              THEN StageYield("FetchAgent",
                              [sstate EXCEPT !.fetched_context =
                                                 CtxList(context_data)],
                              TRUE, "fetched", "end", "none")
              ELSE StageYield("FetchAgent", failed, TRUE, "error", "end",
                              fault)
           /\ fetchLog' = LastTwo(Append(fetchLog,
                  FetchRecord(names,
                              IF fault = "none" THEN context_data ELSE <<>>,
                              IF fault = "lookup" THEN 0 ELSE Len(to_fetch),
                              fault = "none", fault)))
    /\ UNCHANGED <<backend, CACHETOOLS_AVAILABLE, regOrder, redisDb, now,
                   budget, nextId, last, CACHE_ENABLED, temp_session_service,
                   sessions, graphDb, kgLog>>

\* ------------------------------------------------------------------------
\* Completion texts and their parsing (utils.parse_json_safely).  A text is
\* known by its form: a JSON array inside a code fence, a bare JSON array, a
\* bare JSON object, or no JSON at all; items is the array, obj the object.
\* ------------------------------------------------------------------------
NoObj == [valid |-> FALSE, status |-> ""]

Text(shape, items, obj) == [shape |-> shape, items |-> items, obj |-> obj]

\* extract_json_from_response and json.loads: the object patterns are tried
\* before the array patterns, so that a bare array of objects yields its
\* first object; a text without JSON raises ValueError (the default);
\* a content of None makes re.search raise TypeError, which is not caught
parse_json_safely(text) ==
    IF text.shape = "fenced_list" THEN [t |-> "list", items |-> text.items,
                                        obj |-> NoObj]
    ELSE IF text.shape = "raw_list"
    THEN IF text.items = <<>> THEN [t |-> "list", items |-> <<>>,
                                    obj |-> NoObj]
         ELSE [t |-> "dict", items |-> <<>>, obj |-> NoObj]
    ELSE IF text.shape = "raw_object" THEN [t |-> "dict", items |-> <<>>,
                                            obj |-> text.obj]
    ELSE IF text.shape = "null" THEN [t |-> "raise", items |-> <<>>,
                                      obj |-> NoObj]
    ELSE [t |-> "default", items |-> <<>>, obj |-> NoObj]

\* ------------------------------------------------------------------------
\* KnowledgeDBAgent
\* ------------------------------------------------------------------------
SessionKey(app, id) == [app |-> app, user |-> "Aaditya", id |-> id]

PrimarySession == SessionKey("AgreeGraph", "SESSION_ID")

\* lines 78-83: the session of the nested run
EphemeralSession ==
    SessionKey("KnowledgeDB_EntityExtraction", "SESSION_ID_entity_extraction")

\* variant: the nested session is created in the primary session service
create_session_primary(all, service, key) ==
    [all EXCEPT !["primary"] = @ \cup {key}]

\* create_session of the service KnowledgeDBAgent.temp_session_service
create_session(all, service, key) == [all EXCEPT ![service] = @ \cup {key}]

\* variant: the nested EntityAgent writes its output_key to the parent
NestedRun_inparent(parent, items) ==
    [parent |-> [parent EXCEPT !.entities = EntOutput(items)],
     temp |-> EntOutput(items)]

\* lines 87-110: EntityAgent run by a runner of its own on the ephemeral
\* session; its output_key is written there
NestedRun(parent, items) == [parent |-> parent, temp |-> EntOutput(items)]

\* lines 126-138: one node per entity, described by the fetched summary of
\* the entity when there is one
KGNode(name, fetch_output) ==
    LET about == {i \in 1..Len(fetch_output) :
                     DictGet(fetch_output[i], "entity") = name}
    IN  [name |-> name,
         type |-> "T",
         summary |-> IF about = {} THEN "default"
                     ELSE DictGet(fetch_output[CHOOSE i \in about :
                                      \A j \in about : i <= j], "wikipedia")]

\* json.dumps(nodes, sort_keys=True)
RECURSIVE DumpNodes(_)
DumpNodes(nodes) ==
    IF nodes = <<>> THEN <<>>
    ELSE <<"{">> \o DumpPairs(<<<<"name", nodes[1].name>>,
                               <<"summary", nodes[1].summary>>,
                               <<"type", nodes[1].type>>>>) \o <<"}">>
         \o (IF Len(nodes) = 1 THEN <<>> ELSE <<",", " ">>)
         \o DumpNodes(Tail(nodes))

\* hash_text(text): the sha256 digest of the text; like the md5 digest it
\* is modelled free of collisions
hash_text(text) == <<"$">> \o text \o <<"$">>

KGKey(nodes) ==
    generate_cache_key(<<"kg_relationships">>,
                       <<JStr(hash_text(<<"[">> \o DumpNodes(nodes)
                                        \o <<"]">>))>>, <<>>)

RelList(rels) == [t |-> "list", v |-> rels]

NodeNames(nodes) == {nodes[i].name : i \in 1..Len(nodes)}

\* line 187: the relationships go into the graph as they were proposed
Relationships(nodes, rels) == rels

\* Neo4jTool.save_knowledge_graph: the nodes are merged in one transaction;
\* in a second one every relationship is merged between the nodes the
\* database has under the two names (rel["from_node"] raises KeyError)
Neo4jNodes(db, nodes) == [db EXCEPT !.nodes = @ \cup NodeNames(nodes)]

Neo4jRels(db, rels) ==
    [db EXCEPT !.rels = @ \cup
        {<<rels[i].from_node, rels[i].to_node>> : i \in
            {j \in 1..Len(rels) : /\ rels[j].from_node \in db.nodes
                                  /\ rels[j].to_node \in db.nodes}}]

WellKeyed(rels) == \A i \in 1..Len(rels) : rels[i].keys

\* variant: the handler yields its event and leaves the key as it is
KnowledgeDB_except_nowrite(st) == st

\* lines 213-227: except Exception writes the empty graph
KnowledgeDB_except(st) == [st EXCEPT !.knowledge_graph = EmptyGraph]

\* a segment of a generator that ends without a yield
StageWrite(stage, st, nextpos) ==
    /\ sstate' = st
    /\ trace' = Append(trace, [stage |-> stage, kind |-> "write"])
    /\ pos' = nextpos
    /\ inv' = [inv EXCEPT !.steps = @ + 1, !.post = st]
    /\ UNCHANGED <<template, storeByRef, pc, pending, runs, stageRuns, run,
                   emitted>>

\* a run of the stage that reached the relationship generation (step 5), as
\* the claims about it see it: whether the completion was called, the text
\* it answered and the relationships written
BuildRecord(nodes, called, text, rels, ok) ==
    [nodes |-> nodes, called |-> called,
     text |-> IF called THEN text ELSE Text("garbage", <<>>, NoObj),
     rels |-> rels, ok |-> ok, at |-> now, enabled |-> CACHE_ENABLED]

\* lines 50-227 up to the first yield.  fault is where an exception is
\* raised: at create_session, in the nested run, in the completion call or
\* in the graph database; entities is what the nested EntityAgent extracts
\* and text what the completion answers.  The id of the nested session is
\* derived from the id of the parent session alone and the session is never
\* removed: a store that already holds it either refuses the id (fault
\* "duplicate", the contract of the session store) or replaces the session.
KnowledgeDBAgent_start(fault, entities, text) ==
    /\ pc = "KnowledgeDBAgent"
    /\ pos = "start"
    /\ pending = NoEvent
    /\ LET fetch_output == sstate.fetched_context
           failed == KnowledgeDB_except(sstate)
           created == create_session(sessions, temp_session_service,
                                     EphemeralSession)
           nested == NestedRun(sstate, entities)
           nodes == [i \in 1..Len(entities) |->
                        KGNode(entities[i].name, fetch_output.items)]
           key == KGKey(nodes)
           s0 == caches["knowledge_graph"]
           got == IF CACHE_ENABLED THEN InMemoryCache_get(s0, key, now)
                  ELSE [store |-> s0, ret |-> JNone]
           cached == got.ret # JNone /\ got.ret.v # <<>>
           parsed == parse_json_safely(text)
           proposed == IF cached THEN got.ret.v
                       ELSE IF parsed.t = "list" THEN parsed.items
                       ELSE <<>>
           s1 == IF ~cached /\ CACHE_ENABLED /\ proposed # <<>>
                 THEN InMemoryCache_set(got.store, key, RelList(proposed), 0,
                                        now).store
                 ELSE got.store
           relationships == Relationships(nodes, proposed)
           Fail(cause, ss, cs, db) ==
               /\ StageYield("KnowledgeDBAgent", failed, TRUE, "failed",
                             "end", cause)
               /\ sessions' = ss
               /\ caches' = [caches EXCEPT !["knowledge_graph"] = cs]
               /\ graphDb' = db
           Build(ok, rels) ==
               kgLog' = LastTwo(Append(kgLog,
                            BuildRecord(nodes, ~cached, text, rels, ok)))
       IN  IF fetch_output.t = "missing" \/ (fetch_output.t = "list"
                                            /\ fetch_output.items = <<>>)
           THEN /\ StageYield("KnowledgeDBAgent", sstate, FALSE, "no context",
                              "nocontext", "no context")
                /\ UNCHANGED <<caches, sessions, graphDb, kgLog>>
           ELSE IF \/ fetch_output.t # "list"
                   \/ \E i \in 1..Len(fetch_output.items) :
                          fetch_output.items[i].t # "dict"
           THEN Fail("malformed context", sessions, s0, graphDb)
                /\ UNCHANGED kgLog
           ELSE IF temp_session_service = "none"
           THEN Fail("no session store", sessions, s0, graphDb)
                /\ UNCHANGED kgLog
           ELSE IF fault = "create"
           THEN Fail("create_session", sessions, s0, graphDb)
                /\ UNCHANGED kgLog
           ELSE IF fault = "duplicate"
           THEN /\ EphemeralSession \in sessions[temp_session_service]
                /\ Fail("DuplicateSession", sessions, s0, graphDb)
                /\ UNCHANGED kgLog
           ELSE IF fault = "nested"
           THEN Fail("nested run", created, s0, graphDb)
                /\ UNCHANGED kgLog
           ELSE IF entities = <<>>
           THEN /\ StageYield("KnowledgeDBAgent", nested.parent, FALSE,
                              "no entities extracted", "noentities",
                              "no entities extracted")
                /\ sessions' = created
                /\ UNCHANGED <<caches, graphDb, kgLog>>
           ELSE IF ~cached /\ (fault = "completion" \/ parsed.t = "raise")
           THEN Fail("completion", created, LogOther(got.store), graphDb)
                /\ Build(FALSE, <<>>)
           ELSE IF fault = "db"
           THEN Fail("graph database", created, LogOther(s1), graphDb)
                /\ Build(FALSE, <<>>)
           ELSE IF ~WellKeyed(relationships)
           THEN Fail("relationship without keys", created, LogOther(s1),
                     Neo4jNodes(graphDb, nodes))
                /\ Build(FALSE, <<>>)
           ELSE /\ StageYield("KnowledgeDBAgent",
                              [nested.parent EXCEPT !.knowledge_graph =
                                  Graph(nodes, relationships)],
                              TRUE, "built", "end", "none")
                /\ sessions' = created
                /\ caches' = [caches EXCEPT !["knowledge_graph"] =
                                                LogOther(s1)]
                /\ graphDb' = Neo4jRels(Neo4jNodes(graphDb, nodes),
                                        relationships)
                /\ Build(TRUE, relationships)
    /\ UNCHANGED <<backend, CACHETOOLS_AVAILABLE, regOrder, redisDb, now,
                   budget, nextId, last, CACHE_ENABLED, temp_session_service,
                   fetchLog>>

\* lines 62-63 and 121-122: after the event, the empty graph is written
KnowledgeDBAgent_resume ==
    /\ pc = "KnowledgeDBAgent"
    /\ pos \in {"nocontext", "noentities"}
    /\ pending = NoEvent
    /\ StageWrite("KnowledgeDBAgent",
                  [sstate EXCEPT !.knowledge_graph = EmptyGraph], "end")
    /\ UNCHANGED <<cacheVars, stageVars>>

\* ------------------------------------------------------------------------
\* JudgeAgent
\* ------------------------------------------------------------------------
\* lines 134-246.  raises is the exception completion() raises ("none" when
\* it answers text): a ValueError or one of its subclasses, or any other.
\* The handler of (JSONDecodeError, ValueError) prints response_content,
\* which is bound only after completion() has returned.
JudgeAgent_run(raises, text) ==
    /\ pc = "JudgeAgent"
    /\ pos = "start"
    /\ pending = NoEvent
    /\ LET parsed == parse_json_safely(text)
           Result(status, cause) ==
               StageYield("JudgeAgent",
                          [sstate EXCEPT !.judge_result = JudgeResult(status)],
                          TRUE, IF cause = "none" THEN "analysis" ELSE "error",
                          "end", cause)
       IN  IF raises = "ValueError"
           THEN StageRaise("JudgeAgent", "UnboundLocalError")
           ELSE IF raises # "none" THEN Result("Error", "completion")
           ELSE IF parsed.t = "raise" THEN Result("Error", "no content")
           ELSE IF parsed.t = "default" THEN Result("Unknown", "unparseable")
           ELSE IF parsed.t = "list"
           THEN IF parsed.items = <<>> THEN Result("Unknown", "unparseable")
                ELSE Result("Error", "not an object")
           ELSE IF ~parsed.obj.valid THEN Result("Unknown", "schema")
           ELSE Result(parsed.obj.status, "none")
    /\ UNCHANGED <<cacheVars, stageVars>>

\* ------------------------------------------------------------------------
\* The session operations on their own
\* ------------------------------------------------------------------------
SetUserQuery(statements) ==
    /\ pc = "idle"
    /\ Len(sstate.interaction_history) < MaxHistory
    /\ sstate' = set_user_query(sstate, statements)
    /\ template' = TemplateAfter(template, sstate', storeByRef)
    /\ run' = [NoRun EXCEPT !.phase = "set_user_query"]
    /\ UNCHANGED <<storeByRef, pc, pos, pending, runs, stageRuns, emitted,
                   trace, inv>>

AddAgentResponse(agent_name, response_text) ==
    /\ pc = "idle"
    /\ Len(sstate.interaction_history) < MaxHistory
    /\ sstate' = add_agent_response(sstate, agent_name, response_text)
    /\ template' = TemplateAfter(template, sstate', storeByRef)
    /\ run' = [NoRun EXCEPT !.phase = "add_agent_response"]
    /\ UNCHANGED <<storeByRef, pc, pos, pending, runs, stageRuns, emitted,
                   trace, inv>>

ResetSession ==
    /\ pc = "idle"
    /\ runs < MaxResets
    /\ sstate' = reset_session(template)
    /\ runs' = runs + 1
    /\ run' = [NoRun EXCEPT !.phase = "reset"]
    /\ UNCHANGED <<template, storeByRef, pc, pos, pending, stageRuns, emitted,
                   trace, inv>>

\* ------------------------------------------------------------------------
\* A stage run on its own session state
\* ------------------------------------------------------------------------
\* the state the stage finds: what earlier stages (or anything else that
\* writes the session) have left under a key
SessionHolds(key, value) ==
    /\ pc = "idle"
    /\ stageRuns < MaxStageRuns
    /\ sstate' = [sstate EXCEPT ![key] = value]
    /\ run' = [NoRun EXCEPT !.phase = "prepared"]
    /\ UNCHANGED <<template, storeByRef, pc, pos, pending, runs, stageRuns,
                   emitted, trace, inv>>

\* stage.run_async(ctx) on the session
InvokeStage(stage) ==
    /\ pc = "idle"
    /\ stageRuns < MaxStageRuns
    /\ pc' = stage
    /\ pos' = "start"
    /\ stageRuns' = stageRuns + 1
    /\ run' = [NoRun EXCEPT !.phase = "stage", !.pre = sstate,
                            !.preRuns = stageRuns]
    /\ emitted' = <<>>
    /\ trace' = <<>>
    /\ inv' = Invocation(stage, sstate)
    /\ UNCHANGED <<sstate, template, storeByRef, pending, runs>>

\* time passes between two runs of a stage
Elapse ==
    /\ pc = "idle"
    /\ now < MaxTime
    /\ now' = now + 1
    /\ UNCHANGED <<backend, CACHETOOLS_AVAILABLE, caches, regOrder, redisDb,
                   budget, nextId, last>>

\* ------------------------------------------------------------------------
\* get_cache_manager().get_cache(name) called from several threads.
\* Neither function takes a lock, so a thread can be preempted between any
\* two of: the test of the global, its assignment, its read for the return,
\* the test of the registry, its assignment, its read for the return.
\* ------------------------------------------------------------------------
Callers == 1..MaxCallers

RaceNames == {"n1", "n2"}

NoExtract == [done |-> FALSE, raised |-> FALSE, text |-> <<>>]

NoCaller == [at |-> "idle", name |-> "", manager |-> 0, held |-> 0]

\* the caller enters get_cache_manager: if _cache_manager is None
get_cache_manager_test(c, name) ==
    /\ callers[c].at = "idle"
    /\ callers' = [callers EXCEPT ![c] =
           [@ EXCEPT !.name = name,
                     !.at = IF cache_manager = 0 THEN "manager_new"
                            ELSE "manager_return"]]
    /\ UNCHANGED <<cache_manager, managers, stores>>

\* _cache_manager = CacheManager(...): a manager with an empty registry
get_cache_manager_assign(c) ==
    /\ callers[c].at = "manager_new"
    /\ managers' = Append(managers, <<>>)
    /\ cache_manager' = Len(managers) + 1
    /\ callers' = [callers EXCEPT ![c].at = "manager_return"]
    /\ UNCHANGED stores

\* return _cache_manager
get_cache_manager_return(c) ==
    /\ callers[c].at = "manager_return"
    /\ callers' = [callers EXCEPT ![c] =
           [@ EXCEPT !.manager = cache_manager, !.at = "store_test"]]
    /\ UNCHANGED <<cache_manager, managers, stores>>

\* get_cache: if name not in self.caches
get_cache_test(c) ==
    /\ callers[c].at = "store_test"
    /\ callers' = [callers EXCEPT ![c].at =
           IF callers[c].name \notin DOMAIN managers[callers[c].manager]
           THEN "store_new" ELSE "store_return"]
    /\ UNCHANGED <<cache_manager, managers, stores>>

\* self.caches[name] = InMemoryCache(...) or RedisCache(...)
get_cache_assign(registry, name, id) == (name :> id) @@ registry

get_cache_new(c) ==
    /\ callers[c].at = "store_new"
    /\ stores' = Append(stores, callers[c].name)
    /\ managers' = [managers EXCEPT ![callers[c].manager] =
           get_cache_assign(@, callers[c].name, Len(stores) + 1)]
    /\ callers' = [callers EXCEPT ![c].at = "store_return"]
    /\ UNCHANGED cache_manager

\* return self.caches[name]
get_cache_return(c) ==
    /\ callers[c].at = "store_return"
    /\ callers' = [callers EXCEPT ![c] =
           [@ EXCEPT !.held = managers[callers[c].manager][callers[c].name],
                     !.at = "done"]]
    /\ UNCHANGED <<cache_manager, managers, stores>>

RaceIdle ==
    /\ cache_manager = 0
    /\ managers = <<>>
    /\ stores = <<>>
    /\ callers = [c \in Callers |-> NoCaller]

RaceNext ==
    \E c \in Callers :
        \/ \E name \in RaceNames : get_cache_manager_test(c, name)
        \/ get_cache_manager_assign(c)
        \/ get_cache_manager_return(c)
        \/ get_cache_test(c)
        \/ get_cache_new(c)
        \/ get_cache_return(c)

\* ------------------------------------------------------------------------
\* utils.extract_json_from_response.  A text is a sequence of tokens: the
\* code fence, the word json, white space, the four brackets; any token is
\* matched by the dot of a pattern (re.DOTALL).
\* ------------------------------------------------------------------------
Fence == "fence"

Tokens == {Fence, "json", " ", "{", "}", "[", "]"}

NoMatch == [found |-> FALSE, text |-> <<>>]

Match(text, from, to) == [found |-> TRUE, text |-> SubSeq(text, from, to)]

Least(S) == CHOOSE i \in S : \A j \in S : i <= j

\* (?:json)? : the word is taken when it is there
SkipJson(text, i) == IF i <= Len(text) /\ text[i] = "json" THEN i + 1 ELSE i

\* \s* : all the white space there is
RECURSIVE SkipSpace(_, _)
SkipSpace(text, i) ==
    IF i <= Len(text) /\ text[i] = " " THEN SkipSpace(text, i + 1) ELSE i

\* where the group of the fenced pattern (fence, optional json, white
\* space, group, white space, fence) starts when the pattern is tried at
\* i, and where it can end
GroupStart(text, i) == SkipSpace(text, SkipJson(text, i + 1))

GroupEnds(text, i, open, close) ==
    IF text[i] # Fence \/ GroupStart(text, i) > Len(text)
       \/ text[GroupStart(text, i)] # open
    THEN {}
    ELSE {e \in (GroupStart(text, i) + 1)..Len(text) :
             /\ text[e] = close
             /\ SkipSpace(text, e + 1) <= Len(text)
             /\ text[SkipSpace(text, e + 1)] = Fence}

\* re.search of a fenced pattern and group(1): the leftmost start, the
\* shortest group
re_search_fenced(text, open, close) ==
    LET starts == {i \in 1..Len(text) :
                      GroupEnds(text, i, open, close) # {}}
    IN  IF starts = {} THEN NoMatch
        ELSE Match(text, GroupStart(text, Least(starts)),
                   Least(GroupEnds(text, Least(starts), open, close)))

\* re.search of a bare pattern (open, anything, close) and group(0)
re_search_bare(text, open, close) ==
    LET ends(g) == {e \in (g + 1)..Len(text) : text[e] = close}
        starts == {g \in 1..Len(text) : text[g] = open /\ ends(g) # {}}
    IN  IF starts = {} THEN NoMatch
        ELSE Match(text, Least(starts), Least(ends(Least(starts))))

Extracted(m) == [done |-> TRUE, raised |-> FALSE, text |-> m.text]

ValueError == [done |-> TRUE, raised |-> TRUE, text |-> <<>>]

\* variant: the bare array is looked for before the bare object
extract_json_from_response_arrayfirst(text) ==
    IF re_search_fenced(text, "{", "}").found
    THEN Extracted(re_search_fenced(text, "{", "}"))
    ELSE IF re_search_fenced(text, "[", "]").found
    THEN Extracted(re_search_fenced(text, "[", "]"))
    ELSE IF re_search_bare(text, "[", "]").found
    THEN Extracted(re_search_bare(text, "[", "]"))
    ELSE IF re_search_bare(text, "{", "}").found
    THEN Extracted(re_search_bare(text, "{", "}"))
    ELSE ValueError

\* extract_json_from_response(text)
extract_json_from_response(text) ==
    IF re_search_fenced(text, "{", "}").found
    THEN Extracted(re_search_fenced(text, "{", "}"))
    ELSE IF re_search_fenced(text, "[", "]").found
    THEN Extracted(re_search_fenced(text, "[", "]"))
    ELSE IF re_search_bare(text, "{", "}").found
    THEN Extracted(re_search_bare(text, "{", "}"))
    ELSE IF re_search_bare(text, "[", "]").found
    THEN Extracted(re_search_bare(text, "[", "]"))
    ELSE ValueError

Responses == UNION {[1..n -> Tokens] : n \in 0..MaxText}

ExtractInit ==
    /\ response \in Responses
    /\ extracted = NoExtract

ExtractJson ==
    /\ ~extracted.done
    /\ extracted' = extract_json_from_response(response)
    /\ UNCHANGED response
    /\ UNCHANGED <<request, web, results>>

\* ------------------------------------------------------------------------
\* WebFetchTool.  For each name the model draws what the two sources do:
\* Wikipedia has a page, has none, or the call raises; the feed answers a
\* number of items, or the request raises.
\* ------------------------------------------------------------------------
EntityNames == {"A", "B"}

WikiAnswers == {"page", "missing", "raises"}

NewsAnswers == {"raises", "0", "1", "4"}

ItemCount(answer) ==
    CASE answer = "1" -> 1 [] answer = "4" -> 4 [] OTHER -> 0

NoRequest == [entity_names |-> <<>>, include_news |-> TRUE, at |-> 1,
              returned |-> FALSE]

EmptyDict == [present |-> FALSE, summary |-> <<>>]

WikiPage(entity) == [present |-> TRUE, summary |-> <<"about", entity>>]

Article(query, n) == [title |-> <<query, n>>, source |-> "Google News"]

\* fetch_wikipedia(entity): the page when it exists, {} when it does not
\* or when the call raised
fetch_wikipedia(entity, answer) ==
    IF answer = "page" THEN WikiPage(entity) ELSE EmptyDict

\* fetch_google_news_rss(query, max_results): the first max_results items
\* of the feed, [] when the request raised
fetch_google_news_rss(query, max_results, answer) ==
    IF answer = "raises" THEN <<>>
    ELSE [n \in 1..(IF ItemCount(answer) < max_results THEN ItemCount(answer)
                    ELSE max_results) |-> Article(query, n)]

\* variant: an entity whose Wikipedia call raised is left out
fetch_entity_dropfailed(res, entity, include_news, answer) ==
    IF answer.wikipedia = "raises" THEN res
    ELSE Append(res,
                [entity |-> entity,
                 wikipedia |-> fetch_wikipedia(entity, answer.wikipedia),
                 news |-> IF include_news
                          THEN fetch_google_news_rss(entity, 3, answer.news)
                          ELSE <<>>])

\* the body of the loop of fetch_multiple_entities for one entity
fetch_entity(res, entity, include_news, answer) ==
    Append(res,
           [entity |-> entity,
            wikipedia |-> fetch_wikipedia(entity, answer.wikipedia),
            news |-> IF include_news
                     THEN fetch_google_news_rss(entity, 3, answer.news)
                     ELSE <<>>])

NameLists == UNION {[1..n -> EntityNames] : n \in 0..MaxNames}

WebInit ==
    /\ \E names \in NameLists, include_news \in BOOLEAN :
           request = [NoRequest EXCEPT !.entity_names = names,
                                       !.include_news = include_news]
    /\ web \in [EntityNames -> [wikipedia : WikiAnswers, news : NewsAnswers]]
    /\ results = <<>>

\* for entity in entity_names: ... results.append(context)
FetchEntity ==
    /\ ~request.returned
    /\ request.at <= Len(request.entity_names)
    /\ results' = fetch_entity(results, request.entity_names[request.at],
                               request.include_news,
                               web[request.entity_names[request.at]])
    /\ request' = [request EXCEPT !.at = @ + 1]
    /\ UNCHANGED <<response, extracted, web>>

\* return results
FetchReturn ==
    /\ ~request.returned
    /\ request.at > Len(request.entity_names)
    /\ request' = [request EXCEPT !.returned = TRUE]
    /\ UNCHANGED <<response, extracted, web, results>>

NoWeb == [n \in EntityNames |-> [wikipedia |-> "missing", news |-> "0"]]

ToolIdle ==
    /\ response = <<>>
    /\ extracted = NoExtract
    /\ request = NoRequest
    /\ web = NoWeb
    /\ results = <<>>

\* ------------------------------------------------------------------------
\* The cached decorator (cache.py 300-358) around a function f of one
\* positional argument, decorated with cache_name "entity_cache", no
\* key_prefix and the ttl given; outcome is what f does when it is called.
\* ------------------------------------------------------------------------
\* CacheManager.get_cache(name, ttl, max_size=1000); config.MAX_CACHE_SIZE
\* has the same default
DefaultMaxSize == 1000

DefaultTtl == 3600

WrappedCache == "entity_cache"

FnArgs == {JStr(<<"a">>), JInt(<<"1">>)}

FnKey(arg) == generate_cache_key(<<"f">>, <<arg>>, <<>>)

Outcomes ==
    {[raises |-> TRUE, value |-> JNone]}
    \cup {[raises |-> FALSE, value |-> v] : v \in Values \cup {JNone}}

NoWrapped == [done |-> FALSE, calls |-> 0, ttl |-> 0, key |-> <<>>, enabled |-> FALSE,
              had |-> FALSE, lacked |-> FALSE, hadValue |-> JNone,
              outcome |-> JNone, sets |-> 0,
              invoked |-> 0, ret |-> JNone, raised |-> FALSE,
              holds |-> FALSE, heldValue |-> JNone, touched |-> FALSE]

WrapIdle == wrapped = NoWrapped

\* _get_cache_instance(name, ttl): manager.get_cache(name, ttl=ttl or 3600,
\* max_size=MAX_CACHE_SIZE)
get_cache_instance(cs, name, id, ttl) ==
    CacheManager_get_cache(cs, name, id, IF ttl # 0 THEN ttl ELSE DefaultTtl,
                           DefaultMaxSize)

\* variant: the wrapper consults the cache whatever CACHE_ENABLED is
sync_wrapper_noflag(cs, db, id, enabled, ttl, key, outcome, t) ==
    LET cs1 == get_cache_instance(cs, WrappedCache, id, ttl)
        got == Cache_get(cs1[WrappedCache], db, key, t, "none")
        put == Cache_set(got.store, got.db, key, outcome.value, ttl, t,
                         "none")
        With(s) == [cs1 EXCEPT ![WrappedCache] = LogOther(s)]
    IN  IF got.ret # JNone
        THEN [caches |-> With(got.store), db |-> got.db, invoked |-> 0,
              raised |-> FALSE, ret |-> got.ret]
        ELSE IF outcome.raises
        THEN [caches |-> With(got.store), db |-> got.db, invoked |-> 1,
              raised |-> TRUE, ret |-> JNone]
        ELSE [caches |-> With(put.store), db |-> put.db, invoked |-> 1,
              raised |-> FALSE, ret |-> outcome.value]

\* sync_wrapper (lines 337-348; async_wrapper, lines 316-333, is the same):
\* what one call does to the registry and the database, how often it
\* invokes f, and what it returns or raises
sync_wrapper(cs, db, id, enabled, ttl, key, outcome, t) ==
    LET cs1 == get_cache_instance(cs, WrappedCache, id, ttl)
        got == Cache_get(cs1[WrappedCache], db, key, t, "none")
        put == Cache_set(got.store, got.db, key, outcome.value, ttl, t,
                         "none")
        With(s) == [cs1 EXCEPT ![WrappedCache] = LogOther(s)]
    IN  IF ~enabled
        THEN [caches |-> cs, db |-> db, invoked |-> 1,
              raised |-> outcome.raises, ret |-> outcome.value]
        ELSE IF got.ret # JNone
        THEN [caches |-> With(got.store), db |-> got.db, invoked |-> 0,
              raised |-> FALSE, ret |-> got.ret]
        ELSE IF outcome.raises
        THEN [caches |-> With(got.store), db |-> got.db, invoked |-> 1,
              raised |-> TRUE, ret |-> JNone]
        ELSE [caches |-> With(put.store), db |-> put.db, invoked |-> 1,
              raised |-> FALSE, ret |-> outcome.value]

\* the store named has an entry for the key whose expiry lies ahead
UnexpiredEntry(cs, name, key, t) ==
    /\ name \in DOMAIN cs
    /\ IndexOf(cs[name].entries, key) > 0
    /\ t < cs[name].entries[IndexOf(cs[name].entries, key)].e

\* the store named has no entry for the key, or one whose expiry has passed
NoLiveEntry(cs, name, key, t) ==
    \/ name \notin DOMAIN cs
    \/ IndexOf(cs[name].entries, key) = 0
    \/ t > cs[name].entries[IndexOf(cs[name].entries, key)].e

SetsOf(cs, name) == IF name \in DOMAIN cs THEN cs[name].sets ELSE 0

EntryValue(cs, name, key) ==
    IF name \in DOMAIN cs /\ IndexOf(cs[name].entries, key) > 0
    THEN cs[name].entries[IndexOf(cs[name].entries, key)].v
    ELSE JNone

\* one call f(arg) through the wrapper
CallWrapped(arg, outcome) ==
    /\ pc = "idle"
    /\ wrapped.calls < MaxOps
    /\ LET key == FnKey(arg)
           r == sync_wrapper(caches, redisDb, nextId, CACHE_ENABLED,
                             wrapped.ttl, key, outcome, now)
       IN  /\ caches' = r.caches
           /\ redisDb' = r.db
           /\ regOrder' = IF WrappedCache \in DOMAIN r.caches
                             /\ WrappedCache \notin Registered
                          THEN Append(regOrder, WrappedCache) ELSE regOrder
           /\ nextId' = IF DOMAIN r.caches = Registered THEN nextId
                        ELSE nextId + 1
           /\ wrapped' =
                  [wrapped EXCEPT
                      !.done = TRUE, !.calls = @ + 1, !.key = key, !.enabled = CACHE_ENABLED,
                      !.had = UnexpiredEntry(caches, WrappedCache, key, now),
                      !.lacked = NoLiveEntry(caches, WrappedCache, key, now),
                      !.hadValue = EntryValue(caches, WrappedCache, key),
                      !.sets = SetsOf(r.caches, WrappedCache)
                                  - SetsOf(caches, WrappedCache),
                      !.outcome = IF outcome.raises THEN JStr(<<"raise">>)
                                  ELSE outcome.value,
                      !.invoked = r.invoked, !.ret = r.ret,
                      !.raised = r.raised,
                      !.holds = UnexpiredEntry(r.caches, WrappedCache, key,
                                               now),
                      !.heldValue = EntryValue(r.caches, WrappedCache, key),
                      !.touched = r.caches # caches]
    /\ UNCHANGED <<backend, CACHETOOLS_AVAILABLE, now, budget, last>>

AuxIdle == RaceIdle /\ ToolIdle /\ WrapIdle

\* ------------------------------------------------------------------------
\* Specifications
\* ------------------------------------------------------------------------
CacheIdle ==
    /\ backend = "memory"
    /\ CACHETOOLS_AVAILABLE = FALSE
    /\ caches = <<>>
    /\ regOrder = <<>>
    /\ redisDb = [k \in Keys |-> NoDbEntry]
    /\ now = 0
    /\ budget = 0
    /\ nextId = 1
    /\ last = NoOp

PipeIdle ==
    /\ sstate = initial_state
    /\ template = initial_state
    /\ storeByRef = TRUE
    /\ pc = "idle"
    /\ pos = "start"
    /\ pending = NoEvent
    /\ runs = 0
    /\ stageRuns = 0
    /\ run = NoRun
    /\ emitted = <<>>
    /\ trace = <<>>
    /\ inv = NoInvocation

PipeInit == PipeIdle

NoSessions == [primary |-> {PrimarySession}, ephemeral |-> {}]

NoGraphDb == [nodes |-> {}, rels |-> {}]

StageIdle ==
    /\ CACHE_ENABLED = TRUE
    /\ temp_session_service = "ephemeral"
    /\ sessions = NoSessions
    /\ graphDb = NoGraphDb
    /\ fetchLog = <<>>
    /\ kgLog = <<>>

\* the stores the stages take from the manager when they are constructed:
\* FetchAgent "web_fetch", KnowledgeDBAgent "knowledge_graph", each with the
\* TTL of the configuration and the default size
StageCaches(web_ttl, kg_ttl) ==
    /\ backend = "memory"
    /\ caches = CacheManager_get_cache(
                    CacheManager_get_cache(<<>>, "web_fetch", 1, web_ttl,
                                           DefaultMaxSize),
                    "knowledge_graph", 2, kg_ttl, DefaultMaxSize)
    /\ regOrder = <<"web_fetch", "knowledge_graph">>
    /\ redisDb = [k \in Keys |-> NoDbEntry]
    /\ now = 0
    /\ budget = 0
    /\ nextId = 3
    /\ last = NoOp

Init == StoreInit /\ KeyIdle /\ PipeIdle /\ StageIdle /\ AuxIdle

Next == StoreNext /\ UNCHANGED <<keyVars, pipeVars, stageVars>>
    /\ UNCHANGED auxVars

Spec == Init /\ [][Next]_vars

InitEvict == EvictInit /\ KeyIdle /\ PipeIdle /\ StageIdle /\ AuxIdle

NextEvict == EvictNext /\ UNCHANGED <<keyVars, pipeVars, stageVars>>
    /\ UNCHANGED auxVars

SpecEvict == InitEvict /\ [][NextEvict]_vars

InitManager == MgrInit /\ KeyIdle /\ PipeIdle /\ StageIdle /\ AuxIdle

NextManager == MgrNext /\ UNCHANGED <<keyVars, pipeVars, stageVars>>
    /\ UNCHANGED auxVars

SpecManager == InitManager /\ [][NextManager]_vars

\* two calls of generate_cache_key with primitive arguments only: the same
\* text as a str and as an int, and a str that holds the delimiter
PrimValues ==
    {JStr(<<"a">>), JStr(<<"1">>), JInt(<<"1">>), JStr(<<"a", ":", "1">>)}

PrimCalls ==
    [prefix : {<<"p">>},
     args : UNION {[1..n -> PrimValues] : n \in 0..MaxArgs},
     kwargs : {<<>>} \cup {<<<<"m", v>>>> : v \in PrimValues}]

PrimInit ==
    /\ callA \in PrimCalls
    /\ callB = NoCall
    /\ keyA = <<>>
    /\ keyB = <<>>

PrimNext ==
    \/ DeriveA
    \/ \E c \in PrimCalls : DeriveB(c)

InitPrim == CacheIdle /\ PrimInit /\ PipeIdle /\ StageIdle /\ AuxIdle

NextPrim == PrimNext /\ UNCHANGED <<cacheVars, pipeVars, stageVars>>
    /\ UNCHANGED auxVars

SpecPrim == InitPrim /\ [][NextPrim]_vars

\* the two named stores of one manager, as the constructors of FetchAgent
\* and KnowledgeDBAgent leave them, on either backend
PairInit ==
    /\ backend \in {"memory", "redis"}
    /\ CACHETOOLS_AVAILABLE \in BOOLEAN
    /\ backend = "redis" => CACHETOOLS_AVAILABLE
    /\ caches = CacheManager_get_cache(
                    CacheManager_get_cache(<<>>, "n1", 1, MaxTtl,
                                           DefaultMaxSize),
                    "n2", 2, MaxTtl, DefaultMaxSize)
    /\ regOrder = <<"n1", "n2">>
    /\ redisDb = [k \in Keys |-> NoDbEntry]
    /\ now = 0
    /\ budget = MaxMgrOps
    /\ nextId = 3
    /\ last = NoOp

PairNext ==
    \/ \E name \in Names, key \in MgrKeys, value \in Values :
           CacheSet(name, key, value, 0, "none")
    \/ \E name \in Names, key \in MgrKeys : CacheGet(name, key, "none")
    \/ \E name \in Names, key \in MgrKeys : CacheDelete(name, key, "none")
    \/ \E name \in Names : CacheClear(name, "none")

InitPair == PairInit /\ KeyIdle /\ PipeIdle /\ StageIdle /\ AuxIdle

NextPair == PairNext /\ UNCHANGED <<keyVars, pipeVars, stageVars>>
    /\ UNCHANGED auxVars

SpecPair == InitPair /\ [][NextPair]_vars

\* a wrapped function alone, on either flavour of the in-memory store, the
\* flag either way, with time passing between its calls
InitCached ==
    /\ CACHETOOLS_AVAILABLE \in BOOLEAN
    /\ StageCaches(MaxTtl, MaxTtl)
    /\ KeyIdle
    /\ PipeIdle
    /\ CACHE_ENABLED \in BOOLEAN
    /\ temp_session_service = "ephemeral"
    /\ sessions = NoSessions
    /\ graphDb = NoGraphDb
    /\ fetchLog = <<>>
    /\ kgLog = <<>>
    /\ RaceIdle
    /\ ToolIdle
    /\ wrapped \in {[NoWrapped EXCEPT !.ttl = t] : t \in EdgeTtlArgs}

NextCached ==
    /\ \/ Elapse /\ UNCHANGED wrapVars
       \/ \E arg \in FnArgs, outcome \in Outcomes : CallWrapped(arg, outcome)
    /\ UNCHANGED <<keyVars, pipeVars, stageVars, raceVars, toolVars>>

SpecCached == InitCached /\ [][NextCached]_vars

\* the two stages and a wrapped function in one process, the flag either
\* way: stage runs on the session and calls of the function, in any order
FlagEntities == EntOutput(<<EntDict("A"), EntDict("B")>>)

FlagText == Text("fenced_list", <<Rel("A", "B")>>, NoObj)

InitFlag ==
    /\ CACHETOOLS_AVAILABLE = FALSE
    /\ StageCaches(MaxTtl, MaxTtl)
    /\ KeyIdle
    /\ PipeIdle
    /\ CACHE_ENABLED \in BOOLEAN
    /\ temp_session_service = "ephemeral"
    /\ sessions = NoSessions
    /\ graphDb = NoGraphDb
    /\ fetchLog = <<>>
    /\ kgLog = <<>>
    /\ RaceIdle
    /\ ToolIdle
    /\ WrapIdle

NextFlag ==
    /\ \/ SessionHolds("entities", FlagEntities)
             /\ UNCHANGED <<cacheVars, stageVars, wrapVars>>
       \/ (\E stage \in {"FetchAgent", "KnowledgeDBAgent"} :
               InvokeStage(stage))
             /\ UNCHANGED <<cacheVars, stageVars, wrapVars>>
       \/ FetchAgent_start /\ UNCHANGED wrapVars
       \/ FetchAgent_try("w", "none") /\ UNCHANGED wrapVars
       \/ KnowledgeDBAgent_start("none", FlagEntities.items, FlagText)
             /\ UNCHANGED wrapVars
       \/ KnowledgeDBAgent_resume /\ UNCHANGED wrapVars
       \/ ConsumeEvent /\ UNCHANGED <<cacheVars, stageVars, wrapVars>>
       \/ SequentialAgent_next /\ UNCHANGED <<cacheVars, stageVars, wrapVars>>
       \/ (\E outcome \in Outcomes : CallWrapped(JStr(<<"a">>), outcome))
             /\ UNCHANGED <<pipeVars, stageVars>>
    /\ UNCHANGED <<keyVars, raceVars, toolVars>>

SpecFlag == InitFlag /\ [][NextFlag]_vars

InitKey == CacheIdle /\ KeyInit /\ PipeIdle /\ StageIdle /\ AuxIdle

NextKey == KeyNext /\ UNCHANGED <<cacheVars, pipeVars, stageVars>>
    /\ UNCHANGED auxVars

SpecKey == InitKey /\ [][NextKey]_vars

InitRace ==
    CacheIdle /\ KeyIdle /\ PipeIdle /\ StageIdle /\ RaceIdle /\ ToolIdle
       /\ WrapIdle

NextRace ==
    RaceNext /\ UNCHANGED <<cacheVars, keyVars, pipeVars, stageVars, toolVars,
                           wrapVars>>

SpecRace == InitRace /\ [][NextRace]_vars

InitExtract ==
    /\ CacheIdle /\ KeyIdle /\ PipeIdle /\ StageIdle /\ RaceIdle /\ WrapIdle
    /\ ExtractInit
    /\ request = NoRequest /\ web = NoWeb /\ results = <<>>

NextExtract ==
    ExtractJson /\ UNCHANGED <<cacheVars, keyVars, pipeVars, stageVars, raceVars,
                              wrapVars>>

SpecExtract == InitExtract /\ [][NextExtract]_vars

InitWeb ==
    /\ CacheIdle /\ KeyIdle /\ PipeIdle /\ StageIdle /\ RaceIdle /\ WrapIdle
    /\ response = <<>> /\ extracted = NoExtract
    /\ WebInit

NextWeb ==
    /\ FetchEntity \/ FetchReturn
    /\ UNCHANGED <<cacheVars, keyVars, pipeVars, stageVars, raceVars, wrapVars>>

SpecWeb == InitWeb /\ [][NextWeb]_vars

\* -- the pipeline run ------------------------------------------------------
EntityOutputs == {<<>>, <<EntDict("A")>>}

PipeFetchFaults == {"none", "fetch"}

PipeGraphTexts == {Text("fenced_list", <<Rel("A", "A")>>, NoObj)}

PipeJudgeTexts ==
    {Text("raw_object", <<>>, [valid |-> TRUE, status |-> "Agree"]),
     Text("garbage", <<>>, NoObj)}

InitPipeline ==
    /\ CACHETOOLS_AVAILABLE = FALSE
    /\ StageCaches(MaxTtl, MaxTtl)
    /\ KeyIdle
    /\ PipeInit
    /\ StageIdle
    /\ AuxIdle

PipeNext ==
    \/ (\E q \in QueryValues : GuiSubmitQuery(q))
          /\ UNCHANGED <<cacheVars, stageVars>>
    \/ process_query_from_web_gui /\ UNCHANGED <<cacheVars, stageVars>>
    \/ ConsumeEvent /\ UNCHANGED <<cacheVars, stageVars>>
    \/ SequentialAgent_next /\ UNCHANGED <<cacheVars, stageVars>>
    \/ \E items \in EntityOutputs : EntityAgent_run(items)
    \/ FetchAgent_start
    \/ \E fault \in PipeFetchFaults : FetchAgent_try("w", fault)
    \/ \E entities \in EntityOutputs, text \in PipeGraphTexts :
           KnowledgeDBAgent_start("none", entities, text)
    \/ KnowledgeDBAgent_resume
    \/ \E raises \in {"none", "ValueError"}, text \in PipeJudgeTexts :
           JudgeAgent_run(raises, text)

NextPipeline == PipeNext /\ UNCHANGED keyVars /\ UNCHANGED auxVars

SpecPipeline == InitPipeline /\ [][NextPipeline]_vars

\* -- FetchAgent on its own ---------------------------------------------------
FetchEntities ==
    {EntMissing, EntText, EntList(<<>>), EntList(<<EntOther, EntDictNoName>>),
     EntList(<<EntDictBadName("A")>>), EntList(<<EntStr("B")>>),
     EntOutput(<<EntDict("A"), EntDict("B")>>)}

FetchFaults == {"none", "lookup", "fetch", "format"}

InitFetch ==
    /\ CACHETOOLS_AVAILABLE = FALSE
    /\ \E ttl \in EdgeTtls : StageCaches(ttl, MaxTtl)
    /\ KeyIdle
    /\ PipeIdle
    /\ CACHE_ENABLED \in BOOLEAN
    /\ temp_session_service = "ephemeral"
    /\ sessions = NoSessions
    /\ graphDb = NoGraphDb
    /\ fetchLog = <<>>
    /\ kgLog = <<>>
    /\ AuxIdle

NextFetch ==
    /\ \/ (\E v \in FetchEntities : SessionHolds("entities", v))
             /\ UNCHANGED <<cacheVars, stageVars>>
       \/ InvokeStage("FetchAgent") /\ UNCHANGED <<cacheVars, stageVars>>
       \/ FetchAgent_start
       \/ \E fault \in FetchFaults : FetchAgent_try("w", fault)
       \/ ConsumeEvent /\ UNCHANGED <<cacheVars, stageVars>>
       \/ SequentialAgent_next /\ UNCHANGED <<cacheVars, stageVars>>
       \/ Elapse /\ UNCHANGED <<pipeVars, stageVars>>
    /\ UNCHANGED keyVars
    /\ UNCHANGED auxVars

SpecFetch == InitFetch /\ [][NextFetch]_vars

\* -- KnowledgeDBAgent on its own ---------------------------------------------
GraphContexts ==
    {CtxMissing, CtxText, CtxList(<<>>), CtxList(<<JStr(<<"x">>)>>),
     CtxList(<<ContextItem("A", "w")>>)}

GraphFaults == {"none", "create", "duplicate", "nested", "completion", "db"}

GraphEntities == {<<>>, <<EntDict("A"), EntDict("B")>>}

GraphTexts ==
    {Text("fenced_list", <<Rel("A", "B")>>, NoObj),
     Text("fenced_list", <<Rel("A", "B"), Rel("A", "C")>>, NoObj),
     Text("fenced_list", <<RelNoKeys>>, NoObj),
     Text("raw_list", <<Rel("A", "B")>>, NoObj),
     Text("garbage", <<>>, NoObj)}

InitGraph ==
    /\ CACHETOOLS_AVAILABLE \in BOOLEAN
    /\ StageCaches(MaxTtl, MaxTtl)
    /\ KeyIdle
    /\ PipeIdle
    /\ CACHE_ENABLED \in BOOLEAN
    /\ temp_session_service \in {"none", "ephemeral"}
    /\ sessions = NoSessions
    /\ graphDb = NoGraphDb
    /\ fetchLog = <<>>
    /\ kgLog = <<>>
    /\ AuxIdle

NextGraph ==
    /\ \/ (\E v \in GraphContexts : SessionHolds("fetched_context", v))
             /\ UNCHANGED <<cacheVars, stageVars>>
       \/ InvokeStage("KnowledgeDBAgent") /\ UNCHANGED <<cacheVars, stageVars>>
       \/ \E fault \in GraphFaults, entities \in GraphEntities,
             text \in GraphTexts :
              KnowledgeDBAgent_start(fault, entities, text)
       \/ KnowledgeDBAgent_resume
       \/ ConsumeEvent /\ UNCHANGED <<cacheVars, stageVars>>
       \/ SequentialAgent_next /\ UNCHANGED <<cacheVars, stageVars>>
    /\ UNCHANGED keyVars
    /\ UNCHANGED auxVars

SpecGraph == InitGraph /\ [][NextGraph]_vars

\* -- JudgeAgent on its own ---------------------------------------------------
Raises == {"none", "ValueError", "Exception"}

JudgeTexts ==
    {Text("raw_object", <<>>, [valid |-> TRUE, status |-> "Agree"]),
     Text("raw_object", <<>>, [valid |-> TRUE, status |-> "Partial"]),
     Text("raw_object", <<>>, [valid |-> TRUE, status |-> "Maybe"]),
     Text("raw_object", <<>>, NoObj),
     Text("fenced_list", <<>>, NoObj),
     Text("fenced_list", <<Rel("A", "B")>>, NoObj),
     Text("garbage", <<>>, NoObj),
     Text("null", <<>>, NoObj)}

InitJudge ==
    /\ CACHETOOLS_AVAILABLE = FALSE
    /\ StageCaches(MaxTtl, MaxTtl)
    /\ KeyIdle
    /\ PipeIdle
    /\ StageIdle
    /\ AuxIdle

NextJudge ==
    /\ \/ (\E v \in GraphContexts : SessionHolds("fetched_context", v))
             /\ UNCHANGED <<cacheVars, stageVars>>
       \/ InvokeStage("JudgeAgent") /\ UNCHANGED <<cacheVars, stageVars>>
       \/ \E raises \in Raises, text \in JudgeTexts :
              JudgeAgent_run(raises, text)
       \/ ConsumeEvent /\ UNCHANGED <<cacheVars, stageVars>>
       \/ SequentialAgent_next /\ UNCHANGED <<cacheVars, stageVars>>
    /\ UNCHANGED keyVars
    /\ UNCHANGED auxVars

SpecJudge == InitJudge /\ [][NextJudge]_vars

\* -- the session operations --------------------------------------------------
SessionStatements == {<<<<"a">>>>, <<<<"a">>, <<"b">>>>}

InitSession ==
    /\ CacheIdle
    /\ KeyIdle
    /\ StageIdle
    /\ sstate = initial_state
    /\ template = initial_state
    /\ storeByRef \in BOOLEAN
    /\ pc = "idle"
    /\ pos = "start"
    /\ pending = NoEvent
    /\ runs = 0
    /\ stageRuns = 0
    /\ run = NoRun
    /\ emitted = <<>>
    /\ trace = <<>>
    /\ inv = NoInvocation
    /\ AuxIdle

NextSession ==
    /\ \/ \E statements \in SessionStatements : SetUserQuery(statements)
       \/ \E agent \in {"EntityAgent", "JudgeAgent"} :
              AddAgentResponse(agent, "text")
       \/ \E v \in {EntOutput(<<EntDict("A")>>)} : SessionHolds("entities", v)
       \/ ResetSession
    /\ UNCHANGED <<cacheVars, keyVars, stageVars>>
    /\ UNCHANGED auxVars

SpecSession == InitSession /\ [][NextSession]_vars

\* ------------------------------------------------------------------------
\* Properties
\* ------------------------------------------------------------------------
StoreOps == {"get", "set", "delete", "clear"}

DictFallback == backend = "memory" /\ ~CACHETOOLS_AVAILABLE

\* a get that immediately follows a successful set of the same key of the
\* same store, before the expiry stamped on the entry
GetAfterSet == last.op = "get" /\ last.follows /\ last.inTime

C2_LazyExpiry ==
    (last.op = "get" /\ last.expired)
    => /\ last.ret = JNone
       /\ last.delta = <<0, 1, 0, 0>>
       /\ ~Stored(caches[last.name], last.key, now)

C2_Witness ==
    /\ last.op = "get"
    /\ last.expired
    /\ DictFallback
    /\ last.ret = JNone

\* C3: in an in-process store bounded at max_size K, setting K+1 distinct
\* keys leaves exactly K keys stored: the first-inserted key is gone and
\* the K others, the newest included, are stored.
FilledOnce(s) ==
    /\ s.pure
    /\ Len(s.log) = s.max_size + 1
    /\ \A i \in 1..Len(s.log) : now < s.log[i].e

C3_FifoEviction ==
    \A n \in Registered :
        FilledOnce(caches[n])
        => LET s == caches[n]
               kept == {s.log[i].k : i \in 2..Len(s.log)}
           IN  /\ {k \in Keys : Stored(s, k, now)} = kept
               /\ Cardinality(kept) = s.max_size
               /\ ~Stored(s, s.log[1].k, now)

C3_Witness ==
    /\ "n1" \in Registered
    /\ FilledOnce(caches["n1"])
    /\ caches["n1"].max_size = 2
    /\ Len(caches["n1"].entries) = 2

\* C4 (as stated): every get and every set changes exactly one of the
\* counters hits, misses, sets, errors, by one: a get counts a hit or a
\* miss, a set counts a set, or an error when it fails.
C4_OneCounterPerOp ==
    /\ last.op = "get" => last.delta \in {<<1, 0, 0, 0>>, <<0, 1, 0, 0>>}
    /\ last.op = "set" => last.delta = IF last.ok THEN <<0, 0, 1, 0>>
                                       ELSE <<0, 0, 0, 1>>

\* C5: delete and clear leave hits, misses and sets unchanged; errors
\* changes only when the operation fails, and then by one.
C5_DeleteClearFrame ==
    last.op \in {"delete", "clear"}
    => /\ last.delta[1] = 0
       /\ last.delta[2] = 0
       /\ last.delta[3] = 0
       /\ last.delta[4] = IF last.fault # "none" THEN 1 ELSE 0
       /\ last.fault # "none" => ~last.ok

C5_Witness ==
    /\ last.op = "delete"
    /\ last.fault = "transport"
    /\ last.delta = <<0, 0, 0, 1>>

\* C6: in the external store a transport or protocol failure during get,
\* set, delete or clear is never raised to the caller: get returns absent,
\* set, delete and clear return false, and errors is incremented.
C6_RedisFailuresContained ==
    (backend = "redis" /\ last.op \in StoreOps /\ last.fault # "none")
    => /\ ~last.raised
       /\ last.ret = JNone
       /\ ~last.ok
       /\ last.delta[4] = 1

C6_Witness ==
    /\ backend = "redis"
    /\ last.op = "get"
    /\ last.fault = "protocol"
    /\ last.ret = JNone

\* C7: get_cache is idempotent per name: the first call creates the store
\* with its ttl and max_size; a later call with the same name, whatever
\* ttl and max_size it passes, returns the same instance and changes
\* nothing of any store.
C7_GetCacheIdempotent ==
    [][ (budget' = budget - 1 /\ last'.op = "get_cache")
        => IF last'.name \in Registered
           THEN /\ caches' = caches
                /\ last'.retId = caches[last'.name].id
           ELSE /\ caches'[last'.name].ttl = last'.ttl
                /\ backend = "memory"
                   => caches'[last'.name].max_size = last'.size
                /\ caches'[last'.name].entries = <<>>
                /\ last'.retId = caches'[last'.name].id
                /\ \A n \in Registered :
                       /\ caches'[n] = caches[n]
                       /\ caches[n].id # last'.retId ]_vars

C7_Witness ==
    /\ last.op = "get_cache"
    /\ backend = "memory"
    /\ caches[last.name].ttl # last.ttl
    /\ caches[last.name].max_size # last.size
    /\ caches[last.name].entries # <<>>
    /\ caches[last.name].sets > 0

\* C8 (as stated): clear_all invokes clear on every registered store even
\* when an earlier clear fails, and returns true only if every clear
\* succeeded.
StoreEmpty(n) ==
    IF backend = "redis"
    THEN \A k \in Keys : RedisReply(redisDb, k, now) = <<>>
    ELSE \A k \in Keys : ~Stored(caches[n], k, now)

C8_ClearAllVisitsEveryStore ==
    last.op = "clear_all"
    => /\ last.invoked = Registered
       /\ last.ok <=> last.fault = "none"
       /\ \A n \in last.clean : StoreEmpty(n)

\* C9: two calls of generate_cache_key with the same prefix, the same
\* positional arguments in the same order and the same set of named
\* arguments return the same key, whatever the order of the named
\* arguments and of the keys inside a mapping-valued argument.
SameValue(x, y) ==
    /\ x.t = y.t
    /\ IF x.t = "dict"
       THEN {PairsOf(x.v)[i] : i \in 1..Len(PairsOf(x.v))}
            = {PairsOf(y.v)[i] : i \in 1..Len(PairsOf(y.v))}
       ELSE x.v = y.v

SameLogicalCall(a, b) ==
    /\ a.prefix = b.prefix
    /\ Len(a.args) = Len(b.args)
    /\ \A i \in 1..Len(a.args) : SameValue(a.args[i], b.args[i])
    /\ {a.kwargs[i][1] : i \in 1..Len(a.kwargs)}
       = {b.kwargs[i][1] : i \in 1..Len(b.kwargs)}
    /\ \A i \in 1..Len(a.kwargs), j \in 1..Len(b.kwargs) :
           a.kwargs[i][1] = b.kwargs[j][1]
           => SameValue(a.kwargs[i][2], b.kwargs[j][2])

C9_KeyIgnoresOrder ==
    (keyA # <<>> /\ keyB # <<>> /\ SameLogicalCall(callA, callB))
    => keyA = keyB

C9_Witness ==
    /\ keyA # <<>>
    /\ keyB # <<>>
    /\ SameLogicalCall(callA, callB)
    /\ Len(callA.kwargs) = 2
    /\ callA.kwargs[1][1] # callB.kwargs[1][1]
    /\ callA.kwargs[1][2].t = "dict"
    /\ callA.kwargs[1][2] # callB.kwargs[2][2]
    /\ keyA = keyB

\* C10: with a query that is empty or has no non-blank entry,
\* process_query_from_web_gui invokes no stage and leaves the session state
\* as it was.
C10_BlankQueryIsNoOp ==
    (run.phase # "none" /\ run.blank)
    => /\ run.phase = "skipped"
       /\ sstate = run.pre
       /\ stageRuns = run.preRuns
       /\ pc = "idle"

C10_Witness ==
    /\ run.phase = "skipped"
    /\ run.blank
    /\ sstate.user_query = PyList(<<<<" ">>, <<>>>>)
    /\ sstate.interaction_history # <<>>
    /\ stageRuns > 0

\* ------------------------------------------------------------------------
\* The pipeline run
\* ------------------------------------------------------------------------
InRun == run.phase \in {"started", "completed", "raised"}

StagesOf(tr) == {tr[i].stage : i \in 1..Len(tr)}

\* C11: in a pipeline run the stages run in the order EntityAgent,
\* FetchAgent, KnowledgeDBAgent, JudgeAgent, none skipped and none twice;
\* no write or event of a later stage precedes one of an earlier stage, and
\* an event still to be consumed is an event of the stage that is running.
C11_StagesInOrder ==
    InRun =>
       /\ \A i, j \in 1..Len(trace) :
              i < j => StageIndex(trace[i].stage) <= StageIndex(trace[j].stage)
       /\ pc # "idle" =>
              /\ inv.stage = pc
              /\ stageRuns - run.preRuns = StageIndex(pc)
              /\ \A i \in 1..Len(trace) :
                     StageIndex(trace[i].stage) <= StageIndex(pc)
              /\ pending # NoEvent => pending.author = pc
       /\ run.phase = "completed" =>
              /\ stageRuns - run.preRuns = Len(Stages)
              /\ pending = NoEvent

C11_Witness ==
    /\ run.phase = "completed"
    /\ StagesOf(trace) = {Stages[i] : i \in 1..Len(Stages)}
    /\ Len(trace) > 2 * Len(Stages)

\* the events of the run that the loop has consumed
Consumed ==
    IF pending = NoEvent THEN emitted
    ELSE SubSeq(emitted, 1, Len(emitted) - 1)

\* C12: the interaction_history of a pipeline run is the history before
\* it, then one user_query entry with the statements of the run, then one
\* agent_response entry per event the stages have emitted, in the order of
\* emission, none missing and none twice.
C12_HistoryIsQueryThenEvents ==
    InRun =>
       sstate.interaction_history =
           run.pre.interaction_history
           \o <<HistoryEntry("user_query", "", "", run.statements)>>
           \o [i \in 1..Len(Consumed) |->
                  HistoryEntry("agent_response", Consumed[i].author,
                               Consumed[i].text, <<>>)]

C12_Witness ==
    /\ run.phase = "completed"
    /\ Len(emitted) > Len(Stages)
    /\ Len(sstate.interaction_history) = Len(emitted) + 1
    /\ sstate.interaction_history[1].statements = <<<<"a">>>>

\* ------------------------------------------------------------------------
\* The stages
\* ------------------------------------------------------------------------
\* the invocation of the stage is over: its generator is exhausted, or an
\* exception has left it
StageDone(stage) ==
    /\ inv.stage = stage
    /\ inv.status \in {"returned", "raised"}

\* C13: FetchAgent is total: when the fetch collaborator or the cache
\* raises, or the entities key is missing, empty or wrongly shaped, the
\* stage returns normally, fetched_context is the empty list and at least
\* one event has been emitted.
C13_FetchAgentTotal ==
    (StageDone("FetchAgent") /\ inv.failure # "none")
    => /\ inv.status = "returned"
       /\ sstate.fetched_context = [t |-> "list", items |-> <<>>]
       /\ inv.events >= 1

\* C14: KnowledgeDBAgent is total: on every failure it returns normally,
\* knowledge_graph is {nodes: [], relationships: []} and exactly one event
\* has been emitted.
C14_KnowledgeDBAgentTotal ==
    (StageDone("KnowledgeDBAgent") /\ inv.failure # "none")
    => /\ inv.status = "returned"
       /\ sstate.knowledge_graph =
              [shape |-> "graph", nodes |-> <<>>, relationships |-> <<>>]
       /\ inv.events = 1

C14_Witness ==
    /\ StageDone("KnowledgeDBAgent")
    /\ inv.failure = "graph database"
    /\ inv.pre.knowledge_graph.nodes # <<>>
    /\ sstate.knowledge_graph.nodes = <<>>
    /\ EphemeralSession \in sessions["ephemeral"]

\* C15: JudgeAgent is total: for every failure of the completion call and
\* every unparseable or schema-invalid text the stage returns normally,
\* judge_result has agreement_status Unknown or Error and exactly one event
\* has been emitted.
C15_JudgeAgentTotal ==
    (StageDone("JudgeAgent") /\ inv.failure # "none")
    => /\ inv.status = "returned"
       /\ sstate.judge_result.present
       /\ sstate.judge_result.agreement_status \in {"Unknown", "Error"}
       /\ inv.events = 1

\* C16: in the knowledge_graph of the session and in the graph database,
\* both ends of every relationship are names of nodes of the graph.
C16_NoDanglingRelationships ==
    /\ \A i \in 1..Len(sstate.knowledge_graph.relationships) :
           LET r == sstate.knowledge_graph.relationships[i]
           IN  /\ r.from_node \in NodeNames(sstate.knowledge_graph.nodes)
               /\ r.to_node \in NodeNames(sstate.knowledge_graph.nodes)
    /\ \A r \in graphDb.rels : r[1] \in graphDb.nodes /\ r[2] \in graphDb.nodes

\* C17: the session of the nested run cannot be obtained from the primary
\* session service, and the primary session cannot be obtained from the
\* service of the nested run.
C17_EphemeralSessionIsolated ==
    /\ EphemeralSession \notin sessions["primary"]
    /\ PrimarySession \notin sessions["ephemeral"]

C17_Witness ==
    /\ EphemeralSession \in sessions["ephemeral"]
    /\ PrimarySession \in sessions["primary"]
    /\ StageDone("KnowledgeDBAgent")
    /\ inv.failure = "none"

\* C18: during and after an invocation of KnowledgeDBAgent every key of the
\* parent session's state but knowledge_graph is as it was when the stage
\* started, on success and on every failure path.
C18_OnlyKnowledgeGraphChanges ==
    (inv.stage = "KnowledgeDBAgent"
        /\ (pc = "KnowledgeDBAgent" \/ run.phase = "stage"))
    => [sstate EXCEPT !.knowledge_graph = inv.pre.knowledge_graph] = inv.pre

C18_Witness ==
    /\ StageDone("KnowledgeDBAgent")
    /\ run.phase = "stage"
    /\ inv.failure = "none"
    /\ sstate.knowledge_graph.relationships # <<>>
    /\ sstate.knowledge_graph # inv.pre.knowledge_graph
    /\ sstate.fetched_context.items # <<>>

\* C19: with caching enabled, when the try block of FetchAgent has run twice
\* without failure for the same names and no time has passed in between,
\* the second run calls the fetch collaborator for no name and writes the
\* fetched_context the first run wrote.
C19_SecondFetchFromCache ==
    (/\ Len(fetchLog) = 2
     /\ fetchLog[1].enabled /\ fetchLog[2].enabled
     /\ fetchLog[1].ok /\ fetchLog[2].ok
     /\ fetchLog[1].names = fetchLog[2].names
     /\ fetchLog[1].at = fetchLog[2].at)
    => /\ fetchLog[2].calls = 0
       /\ fetchLog[2].ctx = fetchLog[1].ctx

\* ------------------------------------------------------------------------
\* The session operations
\* ------------------------------------------------------------------------
\* C20: after reset_session the session state is the initial template,
\* with an empty interaction_history, whatever was done before.
C20_ResetRestoresTemplate ==
    run.phase = "reset" => sstate = initial_state

\* The statuses the judge's prompt asks for and the two the stage writes
\* itself when the completion fails or cannot be read.
AgreementStatuses == {"Agree", "Disagree", "Partial", "Unknown", "Error"}

\* C21: whenever judge_result is present in the session state, its
\* agreement_status is one of Agree, Disagree, Partial, Unknown and Error,
\* whatever text the completion returned.
C21_StatusInClosedSet ==
    sstate.judge_result.present
    => sstate.judge_result.agreement_status \in AgreementStatuses

\* The keys a session state holds: judge_result is a key only once the
\* judge has written it.
StateKeys(st) ==
    {k \in DOMAIN st : k = "judge_result" => st.judge_result.present}

\* The keys the data model lists for the session state.
DataModelKeys ==
    {"user_query", "interaction_history", "entities", "fetched_context",
     "knowledge_graph", "judge_result", "final_summary"}

\* C22 as stated: in every reachable state of the primary session the keys
\* of the state are among user query, interaction history, entities,
\* fetched context, knowledge graph, judge result and final summary.
C22_KeysInDataModel == StateKeys(sstate) \subseteq DataModelKeys

\* C22: in every reachable state of the primary session the keys of the
\* state are among the user name and the seven keys of the data model:
\* session creation, the stages and the utility functions introduce no
\* other key.
C22_KeysInSessionKeys == StateKeys(sstate) \subseteq SessionKeys

\* a run that every stage has written to: all eight keys are present
C22_Witness ==
    /\ run.phase = "completed"
    /\ StateKeys(sstate) = SessionKeys
    /\ sstate.knowledge_graph # NoGraph

\* the callers that have returned from get_cache(name)
Returned(name) ==
    {c \in Callers : callers[c].at = "done" /\ callers[c].name = name}

\* C23: when callers concurrently call get_cache_manager().get_cache(name)
\* for a name not yet registered, exactly one store is created for the name
\* and every caller receives that store, the registered one.
C23_FirstWriterWins ==
    \A name \in RaceNames :
        /\ Cardinality({i \in DOMAIN stores : stores[i] = name}) <= 1
        /\ \A c \in Returned(name) :
               /\ callers[c].manager = cache_manager
               /\ callers[c].held = managers[cache_manager][name]

\* output key of each stage
OutputKey(stage) ==
    CASE stage = "EntityAgent" -> "entities"
      [] stage = "FetchAgent" -> "fetched_context"
      [] stage = "KnowledgeDBAgent" -> "knowledge_graph"
      [] OTHER -> "judge_result"

OutputKeys == {OutputKey(Stages[i]) : i \in 1..Len(Stages)}

\* the events of the stage under way have all been consumed
EventsConsumed ==
    /\ run.phase \in {"started", "completed"}
    /\ inv.stage # ""
    /\ pending = NoEvent
    /\ pos = "end" \/ run.phase = "completed"

BareCandidates(text, open, close) ==
    {p \in (1..Len(text)) \X (1..Len(text)) :
        p[1] < p[2] /\ text[p[1]] = open /\ text[p[2]] = close}

FencedCandidates(text, open, close) ==
    {p \in BareCandidates(text, open, close) :
        /\ \E i \in 1..(p[1] - 1) :
              /\ text[i] = Fence
              /\ \A k \in (i + 1)..(p[1] - 1) :
                     text[k] = " " \/ (k = i + 1 /\ text[k] = "json")
        /\ \E h \in (p[2] + 1)..Len(text) :
              /\ text[h] = Fence
              /\ \A k \in (p[2] + 1)..(h - 1) : text[k] = " "}

\* the four kinds in the order of their priority
CandidatesOf(text) ==
    <<FencedCandidates(text, "{", "}"), FencedCandidates(text, "[", "]"),
      BareCandidates(text, "{", "}"), BareCandidates(text, "[", "]")>>

\* the candidate that starts first, and of those the one that ends first
FirstOf(S) ==
    CHOOSE p \in S :
        \A q \in S : p[1] < q[1] \/ (p[1] = q[1] /\ p[2] <= q[2])

\* C25: extract_json_from_response returns the first candidate of the
\* first kind, in the order fenced object, fenced array, bare object, bare
\* array, of which the text holds a candidate, and raises ValueError
\* exactly when the text holds a candidate of none of the four kinds.
C25_FirstCandidateByPriority ==
    extracted.done
    => LET kinds == CandidatesOf(response)
           found == {k \in 1..4 : kinds[k] # {}}
       IN  IF found = {} THEN extracted.raised
           ELSE /\ ~extracted.raised
                /\ extracted.text =
                      SubSeq(response, FirstOf(kinds[Least(found)])[1],
                             FirstOf(kinds[Least(found)])[2])

\* a text with a fenced array and an object inside it: the array is returned
C25_Witness ==
    /\ extracted.done
    /\ ~extracted.raised
    /\ FencedCandidates(response, "{", "}") = {}
    /\ FencedCandidates(response, "[", "]") # {}
    /\ BareCandidates(response, "{", "}") # {}
    /\ extracted.text[1] = "["

\* C26: for every cache store, a get that follows a successful set of the
\* key returns the value that was set while less than the applicable ttl
\* has passed since the set, and absent once more than it has passed; the
\* applicable ttl is the one given to the set, or the store's when none
\* was given.  (Gets that fail and in-process stores of size 0 are left out.)
C26_EntryLivesForItsTtl ==
    (/\ last.op = "get"
     /\ last.follows
     /\ last.fault = "none"
     /\ (backend = "redis" \/ caches[last.name].max_size >= 1))
    => /\ last.life = "before" => last.ret = last.val
       /\ last.life = "after" => last.ret = JNone

Counters(s) == <<s.hits, s.misses, s.sets, s.errors>>

\* C27: under get, set, delete, clear and clear_all no counter of a store
\* (hits, misses, sets, errors) ever decreases; in particular clearing a
\* store leaves its statistics as they are.
C27_CountersNeverDecrease ==
    [][\A n \in DOMAIN caches :
          /\ n \in DOMAIN caches'
          /\ \A i \in 1..4 : Counters(caches'[n])[i] >= Counters(caches[n])[i]
          /\ last'.op \in {"clear", "clear_all"}
                => Counters(caches'[n])[1] = Counters(caches[n])[1]
                   /\ Counters(caches'[n])[2] = Counters(caches[n])[2]
                   /\ Counters(caches'[n])[3] = Counters(caches[n])[3]]_vars

\* a store that has counted a set and a hit has just been emptied by
\* clear_all and still shows them
C27_Witness ==
    /\ last.op = "clear_all"
    /\ last.ok
    /\ \E n \in DOMAIN caches :
          /\ caches[n].entries = <<>>
          /\ caches[n].sets > 0

\* a get of a key that a successful delete or clear of the store has
\* removed, with no set of the key since
GetOfRemoved == last.op = "get" /\ last.gone

\* C28 as stated: after a successful delete(key) or clear() the gets of the
\* key return absent until the next set(key); delete(key) returns true when
\* the key was stored and false when it was not.
C28_DeleteTellsStored ==
    /\ GetOfRemoved => last.ret = JNone
    /\ last.op = "delete" => (last.ok <=> last.held)

\* C28: after a successful delete(key) or clear() the gets of the key
\* return absent until the next set(key); a delete(key) whose call to the
\* backend does not fail returns true when the key was stored and false
\* when it was not, and a failing one returns false.
C28_DeleteTellsStoredUnlessFailed ==
    /\ GetOfRemoved => last.ret = JNone
    /\ last.op = "delete"
          => (last.ok <=> (last.held /\ last.fault = "none"))

\* a delete of a stored key has returned true, and the get after it absent
C28_Witness ==
    /\ GetOfRemoved
    /\ last.ret = JNone
    /\ caches[last.name].sets > 0
    /\ caches[last.name].misses > 0

\* C29: the statistics a store reports after H hits and M misses have
\* total_requests = H + M and a hit_rate equal to H / (H + M), and a
\* hit_rate of 0 when H = M = 0.
C29_HitRate ==
    last.op = "get_stats"
    => LET H == caches[last.name].hits
           M == caches[last.name].misses
           rate == last.stats.hit_rate
       IN  /\ last.stats.total_requests = H + M
           /\ rate.den # 0
           /\ rate.num * (H + M) = H * rate.den
           /\ (H = 0 /\ M = 0) => rate.num = 0

\* statistics read after one hit and one miss: a rate of one half
C29_Witness ==
    /\ last.op = "get_stats"
    /\ caches[last.name].hits = 1
    /\ caches[last.name].misses = 1
    /\ caches[last.name].sets > 0
    /\ last.stats.hit_rate = [num |-> 1, den |-> 2]

\* the source did not fail for the name
WikiFound(name) == web[name].wikipedia = "page"

NewsFound(name) == request.include_news /\ web[name].news \in {"1", "4"}

\* C30: fetch_multiple_entities returns exactly one entry for each name
\* asked for, in the order asked, whichever of the two fetches fail: the
\* entry of a name whose Wikipedia fetch failed has an empty reference
\* and one whose news fetch failed an empty news list, and every other
\* entry carries what the sources answered for its name.
C30_OneEntryPerName ==
    request.returned
    => /\ Len(results) = Len(request.entity_names)
       /\ \A i \in 1..Len(results) :
              LET name == request.entity_names[i]
              IN  /\ results[i].entity = name
                  /\ results[i].wikipedia.present <=> WikiFound(name)
                  /\ WikiFound(name)
                        => results[i].wikipedia.summary = <<"about", name>>
                  /\ (results[i].news # <<>>) <=> NewsFound(name)
                  /\ \A n \in 1..Len(results[i].news) :
                         results[i].news[n].title = <<name, n>>

\* two names: both fetches fail for the first, both succeed for the second
C30_Witness ==
    /\ request.returned
    /\ request.entity_names = <<"A", "B">>
    /\ web["A"] = [wikipedia |-> "raises", news |-> "raises"]
    /\ web["B"] = [wikipedia |-> "page", news |-> "4"]
    /\ request.include_news
    /\ Len(results) = 2
    /\ Len(results[2].news) = 3

\* C31: process_query_from_web_gui skips only when the query of the session
\* is empty or has no non-blank entry: a call that finds a query with a
\* non-blank statement, also one that follows a completed run on the same
\* session, does not skip (and so starts the four stages).  Stated for the
\* calls made after a run has recorded its query in the history.
C31_SkipsOnlyBlankQuery ==
    (run.phase = "skipped" /\ run.pre.interaction_history # <<>>)
    => run.blank

\* the event a stage yields to report how it ended (FetchAgent's notice that
\* the fetch is starting is not one)
OutcomeEvent(event) ==
    /\ event # NoEvent
    /\ event.author \in {"FetchAgent", "KnowledgeDBAgent", "JudgeAgent"}
    /\ event.text # "fetching"

\* C32: on every path of FetchAgent, KnowledgeDBAgent and JudgeAgent the
\* stage has written its output key in this run before it yields the event
\* that reports the outcome: whoever reads the session state on receiving
\* the event finds the key set by the stage.
C32_OutputWrittenBeforeEvent ==
    OutcomeEvent(pending)
    => \E i \in 1..Len(trace) :
           trace[i] = [stage |-> pending.author, kind |-> "write"]

\* C33: however many times the pipeline runs on the same parent session,
\* no invocation of KnowledgeDBAgent finds the id of its nested session
\* taken (no DuplicateSession), so a later run builds the graph as the
\* first did; the store holds at most the one nested session.
C33_NoDuplicateSession ==
    /\ ~(inv.stage = "KnowledgeDBAgent" /\ inv.failure = "DuplicateSession")
    /\ Cardinality(sessions["ephemeral"]) <= 1

\* C34: the named stores of one manager are isolated from each other on
\* both backends: a get of a key returns a value only in a store in which
\* the key has been set, and a delete or a clear of one store takes no entry
\* away from another.
C34_NamedStoresIsolated ==
    /\ [](last.op = "get" /\ last.ret # JNone
             => caches[last.name].sets > 0)
    /\ [][last'.op \in {"delete", "clear"}
             => \A n \in Registered \ {last'.name}, k \in MgrKeys :
                    Held(caches[n], redisDb, k, now)
                       => Held(caches'[n], redisDb', k, now')]_vars

\* C35: on every successful run of FetchAgent's try block fetched_context
\* holds exactly one entry per extracted entity name, in the order of the
\* names, whatever mix of cache hits and misses the lookups met.
C35_ContextFollowsNames ==
    \A r \in 1..Len(fetchLog) :
        fetchLog[r].ok
        => /\ Len(fetchLog[r].ctx) = Len(fetchLog[r].names)
           /\ \A i \in 1..Len(fetchLog[r].ctx) :
                  i <= Len(fetchLog[r].names)
                  => DictGet(fetchLog[r].ctx[i], "entity")
                         = fetchLog[r].names[i]

\* C36: generate_cache_key is injective on primitive arguments: two calls
\* that differ in the prefix or in the sequence of positional and named
\* arguments (in a value, in its type, or in how the values are split into
\* arguments) get different keys.
C36_KeyInjective ==
    (keyA # <<>> /\ keyB # <<>> /\ callA # callB) => keyA # keyB

\* ------------------------------------------------------------------------
\* C39: when the relationship completion answers a bare JSON array of
\* relationship objects, the graph KnowledgeDBAgent writes has the objects
\* of that array as its relationships.
\* ------------------------------------------------------------------------
C39_BareArrayKept ==
    \A r \in 1..Len(kgLog) :
        (/\ kgLog[r].ok
         /\ kgLog[r].called
         /\ kgLog[r].text.shape = "raw_list"
         /\ kgLog[r].text.items # <<>>)
        => kgLog[r].rels = kgLog[r].text.items

\* ------------------------------------------------------------------------
\* C40: with caching enabled, a second build for the same node list with no
\* expiry in between does not call the relationship completion, whatever
\* list the first build produced.
\* ------------------------------------------------------------------------
C40_SecondBuildFromCache ==
    (/\ Len(kgLog) = 2
     /\ kgLog[1].ok
     /\ kgLog[2].ok
     /\ kgLog[1].enabled
     /\ kgLog[2].enabled
     /\ kgLog[2].nodes = kgLog[1].nodes
     /\ kgLog[2].at - kgLog[1].at < caches["knowledge_graph"].ttl)
    => ~kgLog[2].called

\* ------------------------------------------------------------------------
\* C37: with CACHE_ENABLED off no stage and no wrapped function gets from or
\* sets into a cache: every store's hits, misses and sets stay zero, every
\* FetchAgent run fetches all its names, every graph build calls the
\* completion, and every call of the wrapped function invokes it.
\* ------------------------------------------------------------------------
C37_FlagOffNoCaching ==
    ~CACHE_ENABLED
    => /\ \A n \in Registered :
              /\ caches[n].hits = 0
              /\ caches[n].misses = 0
              /\ caches[n].sets = 0
       /\ \A r \in 1..Len(fetchLog) :
              fetchLog[r].ok => fetchLog[r].calls = Len(fetchLog[r].names)
       /\ \A r \in 1..Len(kgLog) : kgLog[r].called
       /\ wrapped.done => wrapped.invoked = 1 /\ ~wrapped.touched

C37_Witness ==
    /\ ~CACHE_ENABLED
    /\ Len(fetchLog) = 2
    /\ fetchLog[1].ok
    /\ fetchLog[2].ok
    /\ Len(fetchLog[2].names) = 2
    /\ Len(kgLog) = 1
    /\ kgLog[1].ok
    /\ wrapped.calls >= 2

\* ------------------------------------------------------------------------
\* C38: with caching enabled, a call of the wrapped function whose key has
\* an unexpired entry returns the cached value without invoking the
\* function; a call that misses invokes it once and stores the result under
\* the key; when the function raises, the exception propagates and nothing
\* is stored.
\* ------------------------------------------------------------------------
C38_WrapperMemoizes ==
    (wrapped.done /\ wrapped.enabled)
    => /\ wrapped.had
          => /\ wrapped.invoked = 0
             /\ ~wrapped.raised
             /\ wrapped.ret = wrapped.hadValue
       /\ (wrapped.lacked /\ wrapped.outcome # JStr(<<"raise">>))
          => /\ wrapped.invoked = 1
             /\ wrapped.ret = wrapped.outcome
             /\ wrapped.sets = 1
             /\ wrapped.holds
             /\ wrapped.heldValue = wrapped.outcome
       /\ (wrapped.lacked /\ wrapped.outcome = JStr(<<"raise">>))
          => /\ wrapped.invoked = 1
             /\ wrapped.raised
             /\ wrapped.sets = 0

====
